---------------------------- MODULE Spec2Model ----------------------------
(***************************************************************************)
(* Wallet ledger and payment/transfer reconciliation of dailychow.         *)
(*                                                                         *)
(* The model follows the source at the granularity of its suspension       *)
(* points: every `await` of a store operation or of a gateway request is   *)
(* one step of the task that runs the handler, so that handlers interleave *)
(* exactly where the asyncio event loop lets them.                         *)
(*                                                                         *)
(*   payment_service.py   verify_payment, handle_webhook                   *)
(*   database_service.py  update_user_balance, update_payment_status, ...  *)
(*   user_service.py      update_user_balance, deduct_daily_allowance      *)
(*   transfer_service.py  initiate_transfer                                *)
(*   orchestrator.py      process_daily_allowance                          *)
(*   database.py, scheduler.py, handlers.py   the legacy (Paystack) path   *)
(***************************************************************************)
EXTENDS Integers, Sequences, FiniteSets, TLC

(***************************************************************************)
(* Bounds of the model.                                                    *)
(***************************************************************************)
MaxUsers == 2
MaxRefs == 1
MaxTasks == 2
MaxOps == 3
MaxRuns == 2

Users == 1..MaxUsers
Refs == 1..MaxRefs
TaskIds == 1..MaxTasks

\* A missing value (Python None / absent key) of a user id, a reference or an amount.
Missing == 0

\* Top-up amounts a caller may ask for.
Amounts == {100, 200}

VARIABLES
    wallet_balance,    \* users.wallet_balance, per user
    daily_allowance,   \* users.daily_allowance, per user
    bank_details,      \* user_bank_details row / preferences.bank_details present, per user
    spending_history,  \* spending_history rows of each user, in insertion order
    payments,          \* payments table, keyed by reference
    tasks,             \* the coroutines in flight: position and locals of each
    ops,               \* number of handler invocations started so far
    credited,          \* history: writes of settlement that raised a balance, per reference
    settled,           \* history: a settlement of the reference has run to its end
    opening,           \* history: the balance each user started with
    accepted,          \* history: sum of the signed amounts of the balance updates done
    debits,            \* history: allowance deductions done today, per user
    transfers,         \* history: transfer requests the provider accepted today, per user
    bank_record,       \* user_bank_details row of each user
    validated_accounts,\* TransferService._validated_accounts: keys of the cached validations
    resolved,          \* history: (account_number, bank_code) pairs the provider resolved
    access_token,      \* TransferService._access_token
    token_expires_at,  \* TransferService._token_expires_at
    now,               \* datetime.utcnow(), in seconds
    in_flight,         \* history: login requests sent and not yet answered
    cached_at,         \* TransferService._validated_accounts: cached_at of each key
    banks_cache,       \* TransferService._banks_cache
    banks_cache_expires, \* TransferService._banks_cache_expires
    cached_banks,      \* BankService._cached_banks
    initialized,       \* BaseService._initialized, per service
    shutdown,          \* BaseService._shutdown, per service
    is_healthy,        \* ServiceHealth.is_healthy, per service
    inits,             \* history: runs of initialize() begun, per service
    started,           \* history: the services whose initialize() began, in order
    stopped            \* history: the services whose shutdown() began, in order

vars == <<wallet_balance, daily_allowance, bank_details, spending_history,
          payments, tasks, ops, credited, settled, opening, accepted, debits,
          transfers,
          bank_record, validated_accounts, resolved,
          access_token, token_expires_at, now, in_flight, cached_at,
          banks_cache, banks_cache_expires, cached_banks,
          initialized, shutdown, is_healthy, inits, started, stopped>>

\* The caches of the bank list and the life cycle of the services.
platform == <<banks_cache, banks_cache_expires, cached_banks,
          initialized, shutdown, is_healthy, inits, started, stopped>>

\* The private state of the transfer gateway and the clock it reads.
gateway == <<access_token, token_expires_at, now, in_flight, cached_at>>

\* Per-user settings and histories that only the disbursement and ledger
\* operations touch.
extra == <<bank_record, validated_accounts, resolved, gateway, platform>>

aside == <<opening, debits, transfers, extra>>

ledger == <<wallet_balance, spending_history, payments>>

(***************************************************************************)
(* Rows and locals.                                                        *)
(***************************************************************************)
\* No row of user_bank_details for the user.
NoRecord == [account_number |-> <<>>, bank_code |-> Missing, is_verified |-> FALSE,
             present |-> FALSE]

\* A value that is None.
None == -1

\* The transfer service after __init__: no token, no expiry, an empty cache of
\* validated accounts; the clock at its first reading.
InitGateway ==
    /\ access_token = None
    /\ token_expires_at = None
    /\ now = 0
    /\ in_flight = 0
    /\ cached_at = [k \in {} |-> None]

\* The services of the application, in the startup order configured.
ServiceNames == {"database", "payment", "transfer"}
StartupOrder == <<"database", "payment", "transfer">>

\* BankService has no _cached_banks attribute.
NoCachedBanks == [present |-> FALSE, data |-> "", expires_at |-> 0]

\* After the constructors: no bank list cached; BaseService.__init__ sets
\* _initialized = False, _shutdown = False and ServiceHealth is_healthy = True.
InitRest ==
    /\ banks_cache = "None"
    /\ banks_cache_expires = None
    /\ cached_banks = NoCachedBanks
    /\ initialized = [n \in ServiceNames |-> FALSE]
    /\ shutdown = [n \in ServiceNames |-> FALSE]
    /\ is_healthy = [n \in ServiceNames |-> TRUE]
    /\ inits = [n \in ServiceNames |-> 0]
    /\ started = <<>>
    /\ stopped = <<>>

\* No bank details stored, nothing validated yet, an empty validation cache.
InitExtra ==
    /\ bank_record = [u \in Users |-> NoRecord]
    /\ validated_accounts = {}
    /\ resolved = {}
    /\ InitGateway
    /\ InitRest

AbsentPayment == [status |-> "absent", user_id |-> Missing, amount |-> 0,
                  completed_at |-> FALSE]

IdleTask == [kind |-> "idle", pc |-> "idle", ref |-> Missing, user_id |-> Missing,
             amount |-> 0, status |-> "", operation |-> "", cur |-> 0,
             ret |-> "", seen |-> "", sig |-> "", writes |-> 0,
             raised |-> "none", msg |-> "", users |-> <<>>, calls |-> 0,
             stored |-> 0, account_number |-> <<>>, bank_code |-> Missing,
             selected |-> {}, service |-> "", attempt |-> 0, sleeps |-> 0,
             auths |-> 0, first |-> None, last |-> None, order |-> <<>>,
             name |-> ""]

Entry(amount, category, ref) == [amount |-> amount, category |-> category, ref |-> ref]

\* Replace the locals of task t.
SetTask(t, rec) == tasks' = [tasks EXCEPT ![t] = rec]

\* The handler of task t returns normally.
Done(task) == [task EXCEPT !.pc = "done"]

\* The handler of task t ends by raising `cls(msg)` to its caller.
Raise(task, cls, msg) == [task EXCEPT !.pc = "done", !.raised = cls, !.msg = msg]

\* The class of the exception the caller of a handler sees when a store operation
\* inside it raises `cls`: each handler wraps whatever it catches
\* (payment_service.py:278-280 and 308-310, user_service.py:323-325; user_service
\* deduct_daily_allowance re-raises what update_user_balance wrapped).
Caught(kind, cls) ==
    CASE kind = "verify" -> "PaymentVerificationError"
      [] kind = "webhook" -> "PaymentError"
      [] kind = "initialize" -> "PaymentError"
      [] kind = "transfer" -> "TransferError"
      [] kind \in {"balance", "deduct"} -> "UserError"
      [] OTHER -> cls

Quiescent == \A t \in TaskIds : tasks[t].pc \in {"idle", "done"}


(***************************************************************************)
(* DatabaseService (services/database_service.py).                         *)
(***************************************************************************)

\* UPDATE payments SET status = $2, completed_at = CASE WHEN $2 = 'successful'
\* THEN now ELSE completed_at END WHERE reference = $1: unconditional on the
\* stored status; no row, no change.
update_payment_status(table, reference, status) ==
    IF reference \in Refs /\ table[reference].status # "absent"
    THEN [table EXCEPT ![reference].status = status,
                       ![reference].completed_at =
                           IF status = "successful" THEN TRUE ELSE @]
    ELSE table

\* The new balance update_user_balance computes from the balance it read.
new_balance(current_balance, amount, operation) ==
    IF operation = "add" THEN current_balance + amount ELSE current_balance - amount

\* update_user_balance raises DatabaseError("Insufficient balance").
insufficient(current_balance, amount, operation) ==
    operation = "subtract" /\ new_balance(current_balance, amount, operation) < 0

\* INSERT INTO spending_history.
log_spending(history, user_id, amount, category, ref) ==
    [history EXCEPT ![user_id] = Append(@, Entry(amount, category, ref))]

\* First statement of update_user_balance's transaction:
\* SELECT wallet_balance FROM users WHERE user_id = $1.
update_user_balance_read(t) ==
    /\ tasks[t].pc = "ub_read"
    /\ IF tasks[t].user_id \in Users
       THEN SetTask(t, [tasks[t] EXCEPT !.cur = wallet_balance[tasks[t].user_id],
                                        !.pc = "ub_write"])
       ELSE SetTask(t, Raise(tasks[t], Caught(tasks[t].kind, "TransactionError"),
                             "User not found"))
    /\ UNCHANGED <<wallet_balance, daily_allowance, bank_details, spending_history,
                   payments, ops, credited, settled, accepted, aside>>

\* Rest of the transaction: compute the new balance from the value read, raise
\* on a negative result of a subtraction, else UPDATE users SET wallet_balance = $2
\* and commit. The UPDATE waits on a row lock held by another transaction and then
\* writes its own value, so the statement and the commit are one step.
update_user_balance_write(t) ==
    LET task == tasks[t]
        nb == new_balance(task.cur, task.amount, task.operation)
    IN  /\ task.pc = "ub_write"
        /\ IF insufficient(task.cur, task.amount, task.operation)
           THEN /\ SetTask(t, Raise(task, Caught(task.kind, "TransactionError"),
                                     "Insufficient balance"))
                /\ UNCHANGED <<wallet_balance, credited, accepted, debits>>
           ELSE /\ wallet_balance' = [wallet_balance EXCEPT ![task.user_id] = nb]
                /\ accepted' = [accepted EXCEPT ![task.user_id] = @ + (nb - task.cur)]
                /\ debits' = IF task.kind = "deduct" /\ nb < wallet_balance[task.user_id]
                             THEN [debits EXCEPT ![task.user_id] = @ + 1] ELSE debits
                /\ SetTask(t, [task EXCEPT !.pc = task.ret, !.cur = nb,
                                           !.writes = @ + 1])
                /\ credited' = IF /\ task.kind \in {"verify", "webhook"}
                                  /\ nb > wallet_balance[task.user_id]
                               THEN [credited EXCEPT ![task.ref] = @ + 1]
                               ELSE credited
        /\ UNCHANGED <<daily_allowance, bank_details, spending_history, payments,
                       ops, settled, opening, transfers, extra>>

(***************************************************************************)
(* PaymentService (services/payment_service.py).                           *)
(***************************************************************************)
SecretKey == 1
ForeignKey == 2
KorapayLiteral == 0

Events == {"charge.success", "charge.failed", "charge.other"}
ProviderStatuses == {"success", "failed", "processing"}

MaxAmount == 200

Payloads == [event : Events, reference : Refs \cup {Missing},
             amount : Amounts, user_id : Users \cup {Missing}]

EventCode(e) == CASE e = "charge.success" -> 0 [] e = "charge.failed" -> 1 [] OTHER -> 2

\* json.dumps(webhook_data, separators, sort_keys=True): one string per content.
PayloadCode(p) ==
    ((EventCode(p.event) * (MaxRefs + 1) + p.reference) * (MaxAmount + 1) + p.amount)
        * (MaxUsers + 1) + p.user_id

HmacSpan == 3 * (MaxRefs + 1) * (MaxAmount + 1) * (MaxUsers + 1)

\* hmac.new(key, payload, sha256).hexdigest(): distinct for distinct (key, payload),
\* and never the literal the HTTP endpoint passes as the signature.
Hmac(key, p) == key * HmacSpan + PayloadCode(p) + 1

\* The signatures a delivery of payload p may carry: the provider's own, one made
\* with another key, the provider's signature of the same event with another
\* amount (a payload altered in transit), and the endpoint's literal.
Signatures(p) ==
    {Hmac(SecretKey, p), Hmac(ForeignKey, p), KorapayLiteral}
        \cup {Hmac(SecretKey, [p EXCEPT !.amount = a]) : a \in Amounts}

\* History: what the signature of a delivery of p is, for the record of the task.
SignatureKind(p, signature) ==
    IF signature = Hmac(SecretKey, p) THEN "valid"
    ELSE IF \E q \in Payloads : signature = Hmac(SecretKey, q) THEN "tampered"
    ELSE IF signature = KorapayLiteral THEN "literal"
    ELSE "foreign"

\* A signature check that does not bind the body received: any signature the
\* provider ever made passes.
verify_webhook_signature_unbound(p, signature) ==
    \E q \in Payloads : signature = Hmac(SecretKey, q)

\* _verify_webhook_signature: hmac.compare_digest(signature, expected_signature).
verify_webhook_signature(p, signature) == signature = Hmac(SecretKey, p)

\* A reference no payment row and no task in flight uses yet (uuid4-based).
FreshRefs == {r \in Refs : /\ payments[r].status = "absent"
                           /\ \A t \in TaskIds : tasks[t].ref # r}

Start(t) == tasks[t].pc = "idle" /\ ops < MaxOps /\ ops' = ops + 1

\* A variant of invalid_amount that lets a zero amount through.
invalid_amount_negative(amount) == amount < 0

\* initialize_payment: if amount <= 0: raise PaymentError("Invalid payment amount").
invalid_amount(amount) == amount <= 0

\* initialize_payment up to its first store operation: validate the amount, POST
\* /charges (gateway_ok: the request returned 200 with status true). `calls`
\* counts the requests the handler has sent to the gateway.
initialize_payment(t, user_id, amount, gateway_ok) ==
    /\ Start(t)
    /\ FreshRefs # {}
    /\ LET reference == CHOOSE r \in FreshRefs : \A q \in FreshRefs : r <= q
           task == [IdleTask EXCEPT !.kind = "initialize", !.user_id = user_id,
                                    !.amount = amount]
       IN  IF invalid_amount(amount)
           THEN SetTask(t, Raise(task, "PaymentError", "Invalid payment amount"))
           ELSE IF ~gateway_ok
           THEN SetTask(t, Raise([task EXCEPT !.calls = 1], "PaymentError",
                                 "Payment initialization failed"))
           ELSE SetTask(t, [task EXCEPT !.pc = "ip_record", !.ref = reference,
                                        !.calls = 1])
    /\ UNCHANGED <<wallet_balance, daily_allowance, bank_details, spending_history,
                   payments, credited, settled, accepted, aside>>

\* initialize_payment: db_service.record_payment(payment_record), status pending.
initialize_payment_record(t) ==
    /\ tasks[t].pc = "ip_record"
    /\ payments' = [payments EXCEPT ![tasks[t].ref] =
                       [status |-> "pending", user_id |-> tasks[t].user_id,
                        amount |-> tasks[t].amount, completed_at |-> FALSE]]
    /\ SetTask(t, [tasks[t] EXCEPT !.pc = "ip_audit", !.writes = @ + 1])
    /\ UNCHANGED <<wallet_balance, daily_allowance, bank_details, spending_history,
                   ops, credited, settled, accepted, aside>>

\* initialize_payment: log_security_event(PAYMENT_INITIALIZED), then return.
initialize_payment_audit(t) ==
    /\ tasks[t].pc = "ip_audit"
    /\ SetTask(t, Done(tasks[t]))
    /\ UNCHANGED <<wallet_balance, daily_allowance, bank_details, spending_history,
                   payments, ops, credited, settled, accepted, aside>>

\* verify_payment up to its first store operation: GET /charges/{reference}.
\* The provider answers for a charge it knows with the user and the amount the
\* charge was created with and with its current status; for any other reference
\* the request fails and verify_payment raises.
verify_payment(t, reference, payment_status) ==
    /\ Start(t)
    /\ LET task == [IdleTask EXCEPT !.kind = "verify", !.ref = reference,
                                    !.seen = payments[reference].status]
       IN  IF payments[reference].status = "absent"
           THEN SetTask(t, Raise(task, "PaymentVerificationError",
                                 "Failed to verify payment"))
           ELSE SetTask(t, [task EXCEPT !.pc = "v_status",
                                        !.status = payment_status,
                                        !.user_id = payments[reference].user_id,
                                        !.amount = payments[reference].amount])
    /\ UNCHANGED <<wallet_balance, daily_allowance, bank_details, spending_history,
                   payments, credited, settled, accepted, aside>>

\* verify_payment: update_payment_status(reference, payment_status, payment_data),
\* then the branch on the provider's status.
verify_payment_status(t) ==
    LET task == tasks[t]
    IN  /\ task.pc = "v_status"
        /\ payments' = update_payment_status(payments, task.ref, task.status)
        /\ SetTask(t, [task EXCEPT
              !.writes = @ + 1,
              !.operation = "add",
              !.ret = "v_log",
              !.pc = IF task.status = "success"
                     THEN (IF task.user_id # Missing /\ task.amount > 0
                           THEN "ub_read" ELSE "done")
                     ELSE IF task.status \in {"failed", "cancelled"}
                          THEN "v_audit" ELSE "done"])
        /\ UNCHANGED <<wallet_balance, daily_allowance, bank_details,
                       spending_history, ops, credited, settled, accepted, aside>>

\* verify_payment: log_spending(... category topup ...) after the balance update.
verify_payment_log(t) ==
    LET task == tasks[t]
    IN  /\ task.pc = "v_log"
        /\ spending_history' = log_spending(spending_history, task.user_id,
                                            task.amount, "topup", task.ref)
        /\ SetTask(t, [task EXCEPT !.pc = "v_audit", !.writes = @ + 1])
        /\ UNCHANGED <<wallet_balance, daily_allowance, bank_details, payments,
                       ops, credited, settled, accepted, aside>>

\* verify_payment: log_security_event(PAYMENT_SUCCESSFUL | PAYMENT_FAILED), the
\* statistics, and the return.
verify_payment_audit(t) ==
    LET task == tasks[t]
    IN  /\ task.pc = "v_audit"
        /\ SetTask(t, Done(task))
        /\ settled' = IF task.status = "success"
                      THEN [settled EXCEPT ![task.ref] = TRUE] ELSE settled
        /\ UNCHANGED <<wallet_balance, daily_allowance, bank_details,
                       spending_history, payments, ops, credited, accepted, aside>>

\* handle_webhook up to its first store operation: the signature check, the
\* reference check and the dispatch on the event type.
handle_webhook(t, p, signature) ==
    /\ Start(t)
    /\ LET task == [IdleTask EXCEPT !.kind = "webhook",
                                    !.sig = SignatureKind(p, signature)]
           delivery == [task EXCEPT !.ref = p.reference, !.status = p.event,
                                    !.seen = IF p.reference \in Refs
                                             THEN payments[p.reference].status
                                             ELSE "",
                                    !.user_id = p.user_id, !.amount = p.amount,
                                    !.operation = "add", !.ret = "w_log"]
       IN  IF ~verify_webhook_signature(p, signature)
           THEN SetTask(t, Raise(task, "PaymentError", "Invalid webhook signature"))
           ELSE IF p.reference = Missing
           THEN SetTask(t, Raise(task, "PaymentError", "Missing payment reference"))
           ELSE IF p.event = "charge.success"
           THEN (IF p.user_id = Missing
                 THEN SetTask(t, Done(delivery))
                 ELSE SetTask(t, [delivery EXCEPT !.pc = "w_status"]))
           ELSE IF p.event = "charge.failed"
           THEN SetTask(t, [delivery EXCEPT !.pc = "w_status"])
           ELSE SetTask(t, Done(delivery))
    /\ UNCHANGED <<wallet_balance, daily_allowance, bank_details, spending_history,
                   payments, credited, settled, accepted, aside>>

\* _handle_korapay_webhook (main_microservices.py): the HTTP endpoint hands the
\* parsed body to handle_webhook with the literal 'korapay' as the signature.
handle_korapay_webhook(t, p) == handle_webhook(t, p, KorapayLiteral)

\* A variant that goes on to credit the wallet whatever the event was.
process_payment_status_credit_any(t) ==
    LET task == tasks[t]
        status == IF task.status = "charge.success" THEN "successful" ELSE "failed"
    IN  /\ task.pc = "w_status"
        /\ payments' = update_payment_status(payments, task.ref, status)
        /\ SetTask(t, [task EXCEPT !.writes = @ + 1, !.pc = "ub_read"])
        /\ UNCHANGED <<wallet_balance, daily_allowance, bank_details,
                       spending_history, ops, credited, settled, accepted, aside>>

\* _process_successful_payment / _process_failed_payment: update_payment_status
\* with the status the event names.
process_payment_status(t) ==
    LET task == tasks[t]
        status == IF task.status = "charge.success" THEN "successful" ELSE "failed"
    IN  /\ task.pc = "w_status"
        /\ payments' = update_payment_status(payments, task.ref, status)
        /\ SetTask(t, [task EXCEPT !.writes = @ + 1,
                                   !.pc = IF task.status = "charge.success"
                                          THEN "ub_read" ELSE "done"])
        /\ UNCHANGED <<wallet_balance, daily_allowance, bank_details,
                       spending_history, ops, credited, settled, accepted, aside>>

\* _process_successful_payment: log_spending(... category topup ...), then return.
process_successful_payment_log(t) ==
    LET task == tasks[t]
    IN  /\ task.pc = "w_log"
        /\ spending_history' = log_spending(spending_history, task.user_id,
                                            task.amount, "topup", task.ref)
        /\ SetTask(t, [Done(task) EXCEPT !.writes = @ + 1])
        /\ settled' = [settled EXCEPT ![task.ref] = TRUE]
        /\ UNCHANGED <<wallet_balance, daily_allowance, bank_details, payments,
                       ops, credited, accepted, aside>>

\* A store operation awaited by task t fails (asyncpg raises): execute_query and
\* transaction wrap the error (database_service.py:110-112, 132-135) and the
\* handler ends with it; a transaction in progress is rolled back.
\* initiate_transfer's except clause also counts the transfer as failed.
StorePcs == {"ub_read", "ub_write", "us_log", "it_log",
             "v_status", "v_log", "w_status", "w_log", "ip_record", "ip_audit"}

storage_failure(t) ==
    /\ tasks[t].pc \in StorePcs
    /\ SetTask(t, Raise([tasks[t] EXCEPT !.status = IF tasks[t].kind = "transfer"
                                                    THEN "failed" ELSE @],
                        Caught(tasks[t].kind,
                               IF tasks[t].pc \in {"ub_read", "ub_write"}
                               THEN "TransactionError" ELSE "DatabaseError"),
                        "storage"))
    /\ UNCHANGED <<wallet_balance, daily_allowance, bank_details, spending_history,
                   payments, ops, credited, settled, accepted, aside>>

\* The caller takes the result of a finished handler; the coroutine is gone.
Return(t) ==
    /\ tasks[t].pc = "done"
    /\ SetTask(t, IdleTask)
    /\ UNCHANGED <<wallet_balance, daily_allowance, bank_details, spending_history,
                   payments, ops, credited, settled, accepted, aside>>

(***************************************************************************)
(* The payment reconciler on its own: charges are created, verified by     *)
(* polling and settled by webhooks, by up to MaxTasks concurrent tasks.    *)
(***************************************************************************)
InitPay ==
    /\ wallet_balance = [u \in Users |-> 0]
    /\ daily_allowance = [u \in Users |-> 0]
    /\ bank_details = [u \in Users |-> FALSE]
    /\ spending_history = [u \in Users |-> <<>>]
    /\ payments = [r \in Refs |-> AbsentPayment]
    /\ tasks = [t \in TaskIds |-> IdleTask]
    /\ ops = 0
    /\ credited = [r \in Refs |-> 0]
    /\ settled = [r \in Refs |-> FALSE]
    /\ opening = wallet_balance
    /\ accepted = [u \in Users |-> 0]
    /\ debits = [u \in Users |-> 0]
    /\ transfers = [u \in Users |-> 0]
    /\ InitExtra

NextPay ==
    \E t \in TaskIds :
        \/ \E u \in Users, a \in Amounts \cup {0, -50}, ok \in BOOLEAN :
               initialize_payment(t, u, a, ok)
        \/ initialize_payment_record(t)
        \/ initialize_payment_audit(t)
        \/ \E r \in Refs, s \in ProviderStatuses : verify_payment(t, r, s)
        \/ verify_payment_status(t)
        \/ verify_payment_log(t)
        \/ verify_payment_audit(t)
        \/ \E p \in Payloads : \E s \in Signatures(p) : handle_webhook(t, p, s)
        \/ \E p \in Payloads : handle_korapay_webhook(t, p)
        \/ process_payment_status(t)
        \/ process_successful_payment_log(t)
        \/ update_user_balance_read(t)
        \/ update_user_balance_write(t)
        \/ storage_failure(t)
        \/ Return(t)

SpecPay == InitPay /\ [][NextPay]_vars


(***************************************************************************)
(* UserService (services/user_service.py), TransferService                 *)
(* (services/transfer_service.py) and the orchestrator's daily allowance   *)
(* (services/orchestrator.py). UserService runs without its Redis cache,   *)
(* as it does when the connection fails at start (user_service.py:74-76).  *)
(***************************************************************************)
OpeningBalances == {1000, 5000}
Allowances == {0, 1000}
UpdateAmounts == {2000}

\* UserService.update_user_balance up to its first store operation.
user_service_update_user_balance(t, user_id, amount, operation) ==
    /\ Start(t)
    /\ SetTask(t, [IdleTask EXCEPT !.kind = "balance", !.pc = "ub_read",
                                   !.user_id = user_id, !.amount = amount,
                                   !.operation = operation, !.ret = "us_log"])
    /\ UNCHANGED <<wallet_balance, daily_allowance, bank_details, spending_history,
                   payments, credited, settled, accepted, aside>>

\* UserService.update_user_balance after the balance update: log_spending of the
\* signed amount, category wallet, and the return of the new balance.
user_service_log_spending(t) ==
    LET task == tasks[t]
        signed == IF task.operation = "add" THEN task.amount ELSE 0 - task.amount
    IN  /\ task.pc = "us_log"
        /\ spending_history' = log_spending(spending_history, task.user_id, signed,
                                            "wallet", Missing)
        /\ SetTask(t, [Done(task) EXCEPT !.writes = @ + 1])
        /\ UNCHANGED <<wallet_balance, daily_allowance, bank_details, payments,
                       ops, credited, settled, accepted, aside>>

\* deduct_daily_allowance up to the balance update: get_user_profile and the two
\* checks on what it read.
deduct_daily_allowance(t, user_id) ==
    /\ Start(t)
    /\ LET task == [IdleTask EXCEPT !.kind = "deduct", !.user_id = user_id,
                                    !.amount = daily_allowance[user_id],
                                    !.operation = "subtract", !.ret = "us_log"]
       IN  IF daily_allowance[user_id] <= 0
           THEN SetTask(t, Raise(task, "UserError", "No daily allowance set"))
           ELSE IF wallet_balance[user_id] < daily_allowance[user_id]
           THEN SetTask(t, Raise(task, "InsufficientBalanceError",
                                 "Insufficient balance"))
           ELSE SetTask(t, [task EXCEPT !.pc = "ub_read"])
    /\ UNCHANGED <<wallet_balance, daily_allowance, bank_details, spending_history,
                   payments, credited, settled, accepted, aside>>

\* What POST /disbursements/single meets at the gateway: "ok" a 200 reply with
\* requestSuccessful, "rejected" a reply without it, "timeout" no reply within
\* the session's ClientTimeout(total=45).
GatewayReplies == {"ok", "rejected", "timeout"}

\* initiate_transfer up to its first store operation: the amount check, the
\* account validation, the login and POST /disbursements/single. Whatever is
\* raised on the way, a timeout included, reaches the handler's except clause:
\* _update_transfer_stats("failed", ...) and raise TransferError("Failed to
\* initiate transfer: ..."). `seen` keeps what the gateway did.
initiate_transfer(t, user_id, amount, reply) ==
    /\ Start(t)
    /\ LET task == [IdleTask EXCEPT !.kind = "transfer", !.user_id = user_id,
                                    !.amount = amount]
       IN  IF amount <= 0
           THEN /\ SetTask(t, Raise([task EXCEPT !.status = "failed"],
                                    "TransferError", "Failed to initiate transfer"))
                /\ UNCHANGED transfers
           ELSE IF reply # "ok"
           THEN /\ SetTask(t, Raise([task EXCEPT !.status = "failed", !.seen = reply],
                                    "TransferError", "Failed to initiate transfer"))
                /\ UNCHANGED transfers
           ELSE /\ SetTask(t, [task EXCEPT !.pc = "it_log", !.seen = reply])
                /\ transfers' = [transfers EXCEPT ![user_id] = @ + 1]
    /\ UNCHANGED <<wallet_balance, daily_allowance, bank_details, spending_history,
                   payments, credited, settled, accepted, opening, debits, extra>>

\* initiate_transfer: log_spending(amount = -amount, category transfer).
initiate_transfer_log(t) ==
    LET task == tasks[t]
    IN  /\ task.pc = "it_log"
        /\ spending_history' = log_spending(spending_history, task.user_id,
                                            0 - task.amount, "transfer", Missing)
        /\ SetTask(t, [task EXCEPT !.pc = "it_audit", !.writes = @ + 1])
        /\ UNCHANGED <<wallet_balance, daily_allowance, bank_details, payments,
                       ops, credited, settled, accepted, aside>>

\* initiate_transfer: the statistics, log_security_event(TRANSFER_INITIATED) and
\* the return of the transfer's reference and status.
initiate_transfer_audit(t) ==
    /\ tasks[t].pc = "it_audit"
    /\ SetTask(t, [Done(tasks[t]) EXCEPT !.msg = "initiated"])
    /\ UNCHANGED <<wallet_balance, daily_allowance, bank_details, spending_history,
                   payments, ops, credited, settled, accepted, aside>>

\* process_daily_allowance: its first statement calls
\* services['budget'].check_daily_allowance_available, which BudgetService
\* (budget_service.py:57-370) does not define; the AttributeError is caught by the
\* handler's except clause, which returns error_code ALLOWANCE_ERROR.
process_daily_allowance(t, user_id) ==
    /\ Start(t)
    /\ SetTask(t, [Done(IdleTask) EXCEPT !.kind = "allowance", !.user_id = user_id,
                                         !.amount = daily_allowance[user_id],
                                         !.cur = wallet_balance[user_id],
                                         !.seen = IF bank_details[user_id]
                                                  THEN "bank" ELSE "",
                                         !.msg = "ALLOWANCE_ERROR"])
    /\ UNCHANGED <<wallet_balance, daily_allowance, bank_details, spending_history,
                   payments, credited, settled, accepted, aside>>

(***************************************************************************)
(* The ledger under concurrent credits, debits, allowance deductions and   *)
(* transfers of one calendar day.                                          *)
(***************************************************************************)
InitLedger ==
    /\ wallet_balance \in [Users -> OpeningBalances]
    /\ \E a \in Allowances : daily_allowance = [u \in Users |-> a]
    /\ \E b \in BOOLEAN : bank_details = [u \in Users |-> b]
    /\ spending_history = [u \in Users |-> <<>>]
    /\ payments = [r \in Refs |-> AbsentPayment]
    /\ tasks = [t \in TaskIds |-> IdleTask]
    /\ ops = 0
    /\ credited = [r \in Refs |-> 0]
    /\ settled = [r \in Refs |-> FALSE]
    /\ opening = wallet_balance
    /\ accepted = [u \in Users |-> 0]
    /\ debits = [u \in Users |-> 0]
    /\ transfers = [u \in Users |-> 0]
    /\ InitExtra

NextLedger ==
    \E t \in TaskIds :
        \/ \E u \in Users, a \in UpdateAmounts, o \in {"add", "subtract"} :
               user_service_update_user_balance(t, u, a, o)
        \/ user_service_log_spending(t)
        \/ \E u \in Users : deduct_daily_allowance(t, u)
        \/ \E u \in Users, a \in Allowances, reply \in GatewayReplies :
               initiate_transfer(t, u, a, reply)
        \/ initiate_transfer_log(t)
        \/ initiate_transfer_audit(t)
        \/ \E u \in Users : process_daily_allowance(t, u)
        \/ update_user_balance_read(t)
        \/ update_user_balance_write(t)
        \/ storage_failure(t)
        \/ Return(t)

SpecLedger == InitLedger /\ [][NextLedger]_vars

(***************************************************************************)
(* The scheduled job of the single-process bot (scheduler.py, database.py). *)
(* Every run is a task; runs of two bot processes on one database          *)
(* interleave at each statement sent to it.                                *)
(***************************************************************************)
\* database.update_wallet_balance: UPDATE users SET wallet_balance =
\* wallet_balance - abs(amount) (+ for a top-up), with no condition on the result.
update_wallet_balance(balances, user_id, amount, is_top_up) ==
    [balances EXCEPT ![user_id] = IF is_top_up THEN @ + amount ELSE @ - amount]

\* database.log_spending: INSERT INTO spending_history (user_id, description,
\* amount, currency, transaction_type), transaction_type expense.
legacy_log_spending(history, user_id, description, amount) ==
    [history EXCEPT ![user_id] =
        Append(@, [amount |-> amount, category |-> "expense", ref |-> Missing,
                   description |-> description])]

\* What paystack_api.initiate_transfer gives the job: "ok" a reply with status
\* true, "rejected" a reply without it, "error" an exception (a timeout among
\* them).
TransferReplies == {"ok", "rejected", "error"}

\* What a statement of the job meets at the database: "ok" it is executed;
\* "error" psycopg2 raises inside the function, which prints the error and
\* returns; "down" get_db_connection raises ConnectionError, which the function
\* does not catch.
StorageOutcomes == {"ok", "error", "down"}

\* The same SELECT without its wallet_balance >= daily_allowance condition.
Eligible_any_balance ==
    {u \in Users : /\ daily_allowance[u] > 0
                   /\ bank_details[u]}

\* The rows of the job's SELECT: daily_allowance > 0 AND wallet_balance >=
\* daily_allowance AND a recipient_code in the preferences.
Eligible ==
    {u \in Users : /\ daily_allowance[u] > 0
                   /\ wallet_balance[u] >= daily_allowance[u]
                   /\ bank_details[u]}

\* The query has no ORDER BY: the rows come in any order.
Orders(S) ==
    {seq \in [1..Cardinality(S) -> S] :
        \A i, j \in 1..Cardinality(S) : i # j => seq[i] # seq[j]}

\* scheduled_daily_allowance_deduction_and_transfer up to the end of its SELECT.
\* The job calls conn.execute(...) on the connection database.get_db_connection
\* returns; driver_ok tells whether the connection object has that method (a
\* psycopg2 connection has only cursor()): without it the job ends here with
\* AttributeError.
scheduled_daily_allowance_deduction_and_transfer(t, driver_ok) ==
    /\ Start(t)
    /\ ops < MaxRuns
    /\ IF ~driver_ok
       THEN SetTask(t, Raise([IdleTask EXCEPT !.kind = "job"], "AttributeError",
                             "execute"))
       ELSE \E rows \in Orders(Eligible) :
                SetTask(t, [IdleTask EXCEPT !.kind = "job", !.users = rows,
                                            !.selected = Eligible,
                                            !.pc = IF rows = <<>> THEN "done"
                                                   ELSE "job_debit"])
    /\ UNCHANGED <<wallet_balance, daily_allowance, bank_details, spending_history,
                   payments, credited, settled, accepted, aside>>

\* Loop body, step 1: db.update_wallet_balance(user_id, daily_allowance,
\* is_top_up=False) for the next row. The job does not learn whether the UPDATE
\* was executed: on a database error the function returns as after a success;
\* a failed connection ends the job with ConnectionError.
job_update_wallet_balance(t, storage) ==
    LET task == tasks[t]
        user_id == Head(task.users)
        next == [task EXCEPT !.user_id = user_id, !.amount = daily_allowance[user_id]]
    IN  /\ task.pc = "job_debit"
        /\ IF storage = "ok"
           THEN /\ wallet_balance' = update_wallet_balance(wallet_balance, user_id,
                                         daily_allowance[user_id], FALSE)
                /\ accepted' = [accepted EXCEPT ![user_id] = @ - daily_allowance[user_id]]
                /\ debits' = [debits EXCEPT ![user_id] = @ + 1]
                /\ SetTask(t, [next EXCEPT !.pc = "job_log", !.status = "debited",
                                           !.writes = @ + 1])
           ELSE /\ UNCHANGED <<wallet_balance, accepted, debits>>
                /\ IF storage = "error"
                   THEN SetTask(t, [next EXCEPT !.pc = "job_log",
                                                !.status = "debit_failed"])
                   ELSE SetTask(t, Raise([next EXCEPT !.status = "debit_failed"],
                                         "ConnectionError", "storage"))
        /\ UNCHANGED <<daily_allowance, bank_details, spending_history, payments,
                       ops, credited, settled, opening, transfers, extra>>

\* Loop body: db.log_spending(user_id, ..., -daily_allowance) and the message to
\* the user.
job_log_spending(t) ==
    LET task == tasks[t]
    IN  /\ task.pc = "job_log"
        /\ spending_history' = legacy_log_spending(spending_history, task.user_id,
                                   "Daily allowance deduction", 0 - task.amount)
        /\ SetTask(t, [task EXCEPT !.pc = "job_transfer", !.writes = @ + 1])
        /\ UNCHANGED <<wallet_balance, daily_allowance, bank_details, payments,
                       ops, credited, settled, accepted, aside>>

\* Loop body, step 2: paystack_api.initiate_transfer in a worker thread, the
\* message to the user and the zero-amount log entry of the result; then the next
\* row. Nothing is credited back and nothing else is recorded when the transfer
\* fails.
job_initiate_transfer(t, reply) ==
    LET task == tasks[t]
        rest == Tail(task.users)
        description == CASE reply = "ok" -> "Paystack transfer initiated"
                         [] reply = "rejected" -> "Paystack transfer initiation failed"
                         [] OTHER -> "Paystack transfer error"
    IN  /\ task.pc = "job_transfer"
        /\ transfers' = IF reply = "ok"
                        THEN [transfers EXCEPT ![task.user_id] = @ + 1]
                        ELSE transfers
        /\ spending_history' = legacy_log_spending(spending_history, task.user_id,
                                                   description, 0)
        /\ SetTask(t, [task EXCEPT !.users = rest, !.writes = @ + 1,
                                   !.calls = @ + 1,
                                   !.msg = IF reply = "ok" THEN "initiated" ELSE "failed",
                                   !.pc = IF rest = <<>> THEN "done" ELSE "job_debit"])
        /\ UNCHANGED <<wallet_balance, daily_allowance, bank_details, payments,
                       ops, credited, settled, accepted, opening, debits, extra>>

NextSched ==
    \E t \in TaskIds :
        \/ \E ok \in BOOLEAN : scheduled_daily_allowance_deduction_and_transfer(t, ok)
        \/ \E storage \in StorageOutcomes : job_update_wallet_balance(t, storage)
        \/ job_log_spending(t)
        \/ \E reply \in TransferReplies : job_initiate_transfer(t, reply)
        \/ Return(t)

\* As InitLedger, with bank details that differ from user to user.
InitSched ==
    /\ wallet_balance \in [Users -> OpeningBalances]
    /\ \E a \in Allowances : daily_allowance = [u \in Users |-> a]
    /\ bank_details \in [Users -> BOOLEAN]
    /\ spending_history = [u \in Users |-> <<>>]
    /\ payments = [r \in Refs |-> AbsentPayment]
    /\ tasks = [t \in TaskIds |-> IdleTask]
    /\ ops = 0
    /\ credited = [r \in Refs |-> 0]
    /\ settled = [r \in Refs |-> FALSE]
    /\ opening = wallet_balance
    /\ accepted = [u \in Users |-> 0]
    /\ debits = [u \in Users |-> 0]
    /\ transfers = [u \in Users |-> 0]
    /\ InitExtra

SpecSched == InitSched /\ [][NextSched]_vars

(***************************************************************************)
(* The monthly budget and its daily allowance (user_service.py,            *)
(* database_service.py, database.py). In this part money is counted in     *)
(* ten-thousandths of a naira, two digits below the currency's precision,  *)
(* so that a quotient that is not a whole number of kobo is visible: for a  *)
(* budget in whole kobo, budget / 30 either ends within three decimals or  *)
(* repeats 3 or 6 for ever.                                                *)
(***************************************************************************)
Naira == 10000
Kobo == 100

Budgets == {30000 * Naira, 1000 * Naira, 100 * Naira, 450 * Naira + 15 * Kobo, 0}

\* budget / 30 on Decimal: the quotient to the digits the context keeps.
decimal_div(budget, days) == budget \div days

\* A value stored in a DECIMAL(10,2) column: rounded to two decimals, halves
\* away from zero (values here are never negative).
numeric_10_2(value) == ((value + (Kobo \div 2)) \div Kobo) * Kobo

\* Python round(value, 2): to two decimals, halves to the even neighbour.
round_2(value) ==
    LET low == (value \div Kobo) * Kobo
        rest == value - low
    IN  IF rest * 2 < Kobo THEN low
        ELSE IF rest * 2 > Kobo THEN low + Kobo
        ELSE IF (low \div Kobo) % 2 = 0 THEN low ELSE low + Kobo

\* UserService.set_user_budget up to its first store operation.
set_user_budget(t, user_id, budget) ==
    /\ Start(t)
    /\ LET task == [IdleTask EXCEPT !.kind = "budget", !.user_id = user_id,
                                    !.amount = budget]
       IN  IF budget <= 0
           THEN SetTask(t, Raise(task, "UserError", "Budget must be greater than zero"))
           ELSE SetTask(t, [task EXCEPT !.pc = "sb_update"])
    /\ UNCHANGED <<wallet_balance, daily_allowance, bank_details, spending_history,
                   payments, credited, settled, accepted, aside>>

\* DatabaseService.update_user_budget: daily_allowance = budget / 30, UPDATE users
\* SET monthly_budget = $2, daily_allowance = $3.
update_user_budget(t) ==
    LET task == tasks[t]
        persisted == numeric_10_2(decimal_div(task.amount, 30))
    IN  /\ task.pc = "sb_update"
        /\ daily_allowance' = [daily_allowance EXCEPT ![task.user_id] = persisted]
        /\ SetTask(t, [task EXCEPT !.pc = "sb_log", !.stored = persisted,
                                   !.writes = @ + 1])
        /\ UNCHANGED <<wallet_balance, bank_details, spending_history, payments,
                       ops, credited, settled, accepted, aside>>

\* UserService.set_user_budget after the update: daily_allowance = budget / 30,
\* the zero-amount log entry, the security event and the returned dictionary.
set_user_budget_log(t) ==
    LET task == tasks[t]
    IN  /\ task.pc = "sb_log"
        /\ spending_history' = log_spending(spending_history, task.user_id, 0,
                                            "budget", Missing)
        /\ SetTask(t, [Done(task) EXCEPT !.cur = decimal_div(task.amount, 30),
                                         !.writes = @ + 1])
        /\ UNCHANGED <<wallet_balance, daily_allowance, bank_details, payments,
                       ops, credited, settled, accepted, aside>>

\* database.set_user_budget: daily_allowance = round(monthly_budget / 30, 2), one
\* UPDATE (or upsert) of the user's row, return of daily_allowance.
database_set_user_budget(t, user_id, monthly_budget) ==
    LET allowance == round_2(decimal_div(monthly_budget, 30))
    IN  /\ Start(t)
        /\ daily_allowance' = [daily_allowance EXCEPT ![user_id] = allowance]
        /\ SetTask(t, [Done(IdleTask) EXCEPT !.kind = "legacy_budget",
                                             !.user_id = user_id,
                                             !.amount = monthly_budget,
                                             !.cur = allowance,
                                             !.stored = allowance, !.writes = 1])
        /\ UNCHANGED <<wallet_balance, bank_details, spending_history, payments,
                       credited, settled, accepted, aside>>

InitBudget ==
    /\ wallet_balance = [u \in Users |-> 0]
    /\ daily_allowance = [u \in Users |-> 0]
    /\ bank_details = [u \in Users |-> FALSE]
    /\ spending_history = [u \in Users |-> <<>>]
    /\ payments = [r \in Refs |-> AbsentPayment]
    /\ tasks = [t \in TaskIds |-> IdleTask]
    /\ ops = 0
    /\ credited = [r \in Refs |-> 0]
    /\ settled = [r \in Refs |-> FALSE]
    /\ opening = wallet_balance
    /\ accepted = [u \in Users |-> 0]
    /\ debits = [u \in Users |-> 0]
    /\ transfers = [u \in Users |-> 0]
    /\ InitExtra

NextBudget ==
    \E t \in TaskIds :
        \/ \E u \in Users, b \in Budgets : set_user_budget(t, u, b)
        \/ update_user_budget(t)
        \/ set_user_budget_log(t)
        \/ \E u \in Users, b \in Budgets : database_set_user_budget(t, u, b)
        \/ Return(t)

SpecBudget == InitBudget /\ [][NextBudget]_vars

(***************************************************************************)
(* Bank accounts (bank_service.py, transfer_service.py, user_service.py,   *)
(* orchestrator.py). An account number is the sequence of its characters:  *)
(* 0..9 are the digits, Letter is any other character.                     *)
(***************************************************************************)
Letter == 10

AccountNumbers ==
    { <<0, 1, 2, 3, 4, 5, 6, 7, 8, 9>>,          \* ten digits
      <<1, 2, 3, 4, 5, 6, 7>>,                   \* seven digits
      <<0, 1, 2, 3, 4, 5, 6, 7, 8, Letter>>,     \* ten characters, one not a digit
      <<>> }

BankCodes == {58}

\* str.isdigit(): every character a digit, and at least one character.
isdigit(account_number) ==
    /\ account_number # <<>>
    /\ \A i \in DOMAIN account_number : account_number[i] \in 0..9

\* BankService._is_valid_account_number.
is_valid_account_number(account_number) ==
    isdigit(account_number) /\ Len(account_number) = 10

\* The accounts the provider can resolve are NUBAN numbers: ten digits.
Nuban(account_number) ==
    /\ Len(account_number) = 10
    /\ \A i \in DOMAIN account_number : account_number[i] \in 0..9

\* The keys of responseBody, the dictionary TransferService.validate_bank_account
\* returns (it reads accountName from it).
AccountDataKeys == {"accountNumber", "accountName", "bankCode"}

\* TransferService.validate_bank_account as a function of what the gateway does:
\* the cache lookup, _ensure_authenticated (login: "held" a valid token is held,
\* "ok" the login request succeeds, "fail" it fails), POST
\* /disbursements/account/validate (provider_ok: requestSuccessful). There is no
\* check of the account number before the requests.
transfer_validate(account_number, bank_code, login, provider_ok) ==
    IF <<account_number, bank_code>> \in validated_accounts
    THEN [calls |-> 0, result |-> "account_data", fresh |-> FALSE]
    ELSE IF login = "fail"
    THEN [calls |-> 1, result |-> "BankValidationError", fresh |-> FALSE]
    ELSE LET calls == IF login = "ok" THEN 2 ELSE 1
         IN  IF provider_ok
             THEN [calls |-> calls, result |-> "account_data", fresh |-> TRUE]
             ELSE [calls |-> calls, result |-> "BankValidationError", fresh |-> FALSE]

\* BankService.validate_bank_account as a function of the same: the format check,
\* the call of TransferService.validate_bank_account, and the test
\* validation_result.get("requestSuccessful") on the dictionary that call returned;
\* every exception is caught and None is returned.
bank_validate(account_number, bank_code, login, provider_ok) ==
    IF ~is_valid_account_number(account_number)
    THEN [calls |-> 0, result |-> "None", fresh |-> FALSE]
    ELSE LET out == transfer_validate(account_number, bank_code, login, provider_ok)
         IN  IF out.result = "account_data" /\ "requestSuccessful" \in AccountDataKeys
             THEN [out EXCEPT !.result = "account_info"]
             ELSE [out EXCEPT !.result = "None"]

\* The effect of a validation on the cache and on what the provider has resolved.
Validated(out, account_number, bank_code) ==
    /\ validated_accounts' = IF out.fresh
                             THEN validated_accounts \cup {<<account_number, bank_code>>}
                             ELSE validated_accounts
    /\ resolved' = IF out.fresh
                   THEN resolved \cup {<<account_number, bank_code>>}
                   ELSE resolved

ProviderReplies(account_number) == IF Nuban(account_number) THEN BOOLEAN ELSE {FALSE}

\* A call of TransferService.validate_bank_account.
validate_bank_account(t, account_number, bank_code, login, provider_ok) ==
    LET out == transfer_validate(account_number, bank_code, login, provider_ok)
        task == [IdleTask EXCEPT !.kind = "validate", !.calls = out.calls,
                                 !.account_number = account_number,
                                 !.bank_code = bank_code,
                                 !.seen = IF provider_ok THEN "resolved" ELSE ""]
    IN  /\ Start(t)
        /\ Validated(out, account_number, bank_code)
        /\ IF out.result = "account_data"
           THEN SetTask(t, [Done(task) EXCEPT !.msg = "accountName"])
           ELSE SetTask(t, Raise(task, "BankValidationError", "Account validation failed"))
        /\ UNCHANGED <<wallet_balance, daily_allowance, bank_details, spending_history,
                       payments, credited, settled, accepted, opening, debits,
                       transfers, bank_record, gateway, platform>>

\* A call of BankService.validate_bank_account.
bank_validate_bank_account(t, account_number, bank_code, login, provider_ok) ==
    LET out == bank_validate(account_number, bank_code, login, provider_ok)
        task == [IdleTask EXCEPT !.kind = "bank_validate", !.calls = out.calls,
                                 !.account_number = account_number,
                                 !.bank_code = bank_code,
                                 !.seen = IF provider_ok THEN "resolved" ELSE ""]
    IN  /\ Start(t)
        /\ Validated(out, account_number, bank_code)
        /\ SetTask(t, [Done(task) EXCEPT !.msg = IF out.result = "account_info"
                                                 THEN "accountName" ELSE "None"])
        /\ UNCHANGED <<wallet_balance, daily_allowance, bank_details, spending_history,
                       payments, credited, settled, accepted, opening, debits,
                       transfers, bank_record, gateway, platform>>

\* DatabaseService.set_user_bank_details: the upsert of the user's row with
\* is_verified = bank_data.get("is_verified", False).
set_user_bank_details_row(records, user_id, account_number, bank_code, is_verified) ==
    [records EXCEPT ![user_id] = [account_number |-> account_number,
                                  bank_code |-> bank_code,
                                  is_verified |-> is_verified, present |-> TRUE]]

\* BankService.save_user_bank_details(user_id, bank_info): the required fields
\* are there; has_bank_name tells whether bank_info also has the bank_name key
\* the upsert reads (KeyError without it). The upsert returns None, so the
\* method answers False also after it stored the row.
save_user_bank_details(t, user_id, account_number, bank_code, has_bank_name, is_verified) ==
    LET task == [IdleTask EXCEPT !.kind = "bank_save", !.user_id = user_id,
                                 !.account_number = account_number,
                                 !.bank_code = bank_code]
    IN  /\ Start(t)
        /\ IF has_bank_name
           THEN /\ bank_record' = set_user_bank_details_row(bank_record, user_id,
                                      account_number, bank_code, is_verified)
                /\ bank_details' = [bank_details EXCEPT ![user_id] = TRUE]
                /\ SetTask(t, [Done(task) EXCEPT !.msg = "False", !.writes = 1])
           ELSE /\ SetTask(t, [Done(task) EXCEPT !.msg = "False"])
                /\ UNCHANGED <<bank_record, bank_details>>
        /\ UNCHANGED <<wallet_balance, daily_allowance, spending_history, payments,
                       credited, settled, accepted, opening, debits, transfers,
                       validated_accounts, resolved, gateway, platform>>

\* UserService.set_user_bank_details(user_id, bank_details): the upsert and the
\* security event; there is no validation on this path.
set_user_bank_details(t, user_id, account_number, bank_code, is_verified) ==
    /\ Start(t)
    /\ bank_record' = set_user_bank_details_row(bank_record, user_id, account_number,
                                                bank_code, is_verified)
    /\ bank_details' = [bank_details EXCEPT ![user_id] = TRUE]
    /\ SetTask(t, [Done(IdleTask) EXCEPT !.kind = "set_bank", !.user_id = user_id,
                                         !.account_number = account_number,
                                         !.bank_code = bank_code, !.writes = 1])
    /\ UNCHANGED <<wallet_balance, daily_allowance, spending_history, payments,
                   credited, settled, accepted, opening, debits, transfers,
                   validated_accounts, resolved, gateway, platform>>

\* process_bank_setup: BankService.validate_bank_account, then
\* save_user_bank_details(user_id, validation_result) when the result is not
\* None. The account_info dictionary has no bank_name key.
process_bank_setup(t, user_id, account_number, bank_code, login, provider_ok) ==
    LET out == bank_validate(account_number, bank_code, login, provider_ok)
        task == [IdleTask EXCEPT !.kind = "bank_setup", !.user_id = user_id,
                                 !.calls = out.calls,
                                 !.account_number = account_number,
                                 !.bank_code = bank_code,
                                 !.seen = IF provider_ok THEN "resolved" ELSE ""]
    IN  /\ Start(t)
        /\ Validated(out, account_number, bank_code)
        /\ SetTask(t, [Done(task) EXCEPT !.msg = IF out.result = "None"
                                                 THEN "VALIDATION_FAILED"
                                                 ELSE "SAVE_FAILED"])
        /\ UNCHANGED <<wallet_balance, daily_allowance, bank_details, spending_history,
                       payments, credited, settled, accepted, opening, debits,
                       transfers, bank_record, gateway, platform>>

NextBank ==
    \E t \in TaskIds :
        \/ \E a \in AccountNumbers, b \in BankCodes, login \in {"held", "ok", "fail"} :
               \E ok \in ProviderReplies(a) : validate_bank_account(t, a, b, login, ok)
        \/ \E a \in AccountNumbers, b \in BankCodes, login \in {"held", "ok", "fail"} :
               \E ok \in ProviderReplies(a) : bank_validate_bank_account(t, a, b, login, ok)
        \/ \E u \in Users, a \in AccountNumbers, b \in BankCodes,
              login \in {"held", "ok", "fail"} :
               \E ok \in ProviderReplies(a) : process_bank_setup(t, u, a, b, login, ok)
        \/ \E u \in Users, a \in AccountNumbers, b \in BankCodes, n, v \in BOOLEAN :
               save_user_bank_details(t, u, a, b, n, v)
        \/ \E u \in Users, a \in AccountNumbers, b \in BankCodes, v \in BOOLEAN :
               set_user_bank_details(t, u, a, b, v)
        \/ Return(t)

\* No bank details are stored and nothing is cached when the services start.
InitBank == InitBudget

SpecBank == InitBank /\ [][NextBank]_vars

(***************************************************************************)
(* The gateways' request loop (PaymentService._make_api_request,           *)
(* TransferService._make_api_request), the transfer gateway's bearer token *)
(* and its cache of validated accounts. A request, its reply and the       *)
(* branch taken on it are one step; a login is two, request and reply.     *)
(***************************************************************************)
max_retries == 3

\* _authenticate: expires_in - 300, "Refresh 5 minutes early".
RefreshMargin == 300

\* validate_bank_account: timedelta(hours=24), in seconds.
CacheTtl == 86400

\* The readings of the clock, in seconds: the start, five minutes later, the
\* refresh deadline of a one-hour token obtained at 0, and a day after the start.
Instants == {0, 300, 3300, 86400}

\* expiresIn of a login reply, in seconds: a fresh one-hour token, and a token
\* whose remaining life is the refresh margin.
ExpiresIn == {3600, 300}

\* The bearer token of a login reply.
Token == 1

\* What an attempt meets: an HTTP status, aiohttp.ClientError raised by the
\* request (ClientErrorRaised), or the session's total timeout, which raises
\* asyncio.TimeoutError (TimeoutRaised).
ClientErrorRaised == 0
TimeoutRaised == 1
Statuses == {200, 400, 401, 403, 500}
Outcomes == Statuses \cup {ClientErrorRaised, TimeoutRaised}

Services == {"payment", "transfer"}

\* The accounts of the cached validations: two keys.
CacheAccounts == {<<0, 1, 2, 3, 4, 5, 6, 7, 8, 9>>, <<1, 2, 3, 4, 5, 6, 7>>}

\* cache_key = f"{account_number}:{bank_code}".
Colon == 11
cache_key(account_number, bank_code) == account_number \o <<Colon, bank_code>>

\* The error class of each gateway.
GatewayError(service) == IF service = "payment" THEN "PaymentError" ELSE "TransferError"

\* What the caller of the handler of this kind sees when `cls` is raised inside
\* it: validate_bank_account wraps every exception in BankValidationError
\* (transfer_service.py:216-218); _authenticate wraps every exception in
\* TransferError (125-127).
Wrapped(kind, cls) == IF kind = "lookup" THEN "BankValidationError" ELSE cls

\* _ensure_authenticated's condition: not self._access_token or not
\* self._token_expires_at or datetime.utcnow() >= self._token_expires_at.
needs_login ==
    \/ access_token = None
    \/ token_expires_at = None
    \/ now >= token_expires_at

\* A variant of the 5xx branch that also retries every 4xx status.
retry_status_any_error(service, status, attempt) ==
    status >= 400 /\ attempt < max_retries - 1

\* elif response.status >= 500 and attempt < self.max_retries - 1: sleep, continue.
retry_status(service, status, attempt) ==
    status >= 500 /\ attempt < max_retries - 1

\* A variant of the 401 branch that re-authenticates on 403 as well.
reauth_status_403(service, status) ==
    service = "transfer" /\ status \in {401, 403}

\* TransferService: elif response.status == 401: await self._authenticate().
\* PaymentService raises on 401 and 403.
reauth_status(service, status) ==
    service = "transfer" /\ status = 401

\* get_banks: "Cache for 1 hour"; _cache_banks: timestamp() + 3600.
BanksTtl == 3600

\* BankService._get_cached_banks: the cached list unless there is none or
\* datetime.now().timestamp() > cache['expires_at'].
get_cached_banks ==
    IF cached_banks.present /\ ~(now > cached_banks.expires_at)
    THEN cached_banks.data ELSE "None"

\* `cls` is raised inside the handler of the task by a login or a request.
\* TransferService.get_banks wraps it in TransferError; BankService.
\* get_supported_banks catches every exception of get_banks and returns
\* _get_cached_banks() instead; the other handlers end with the error, wrapped.
Fail(task, cls, msg) ==
    IF task.kind = "supported"
    THEN [Done(task) EXCEPT !.msg = get_cached_banks, !.seen = "outage"]
    ELSE IF task.kind = "banks"
    THEN Raise([task EXCEPT !.seen = "outage"], "TransferError", "Failed to get banks")
    ELSE IF task.kind = "status"
    THEN Raise(task, "TransferError", "Failed to get transfer status")
    ELSE Raise(task, Wrapped(task.kind, cls), msg)

\* The task leaves _make_api_request with the response: its caller goes on.
request_returns(task) ==
    IF task.kind = "lookup" THEN [task EXCEPT !.pc = "v_reply"]
    ELSE IF task.kind \in {"banks", "supported"} THEN [task EXCEPT !.pc = "b_reply"]
    ELSE IF task.kind = "status" THEN [task EXCEPT !.pc = "s_reply"]
    ELSE [Done(task) EXCEPT !.msg = "response"]

\* A call of _make_api_request on its own.
make_api_request(t, service) ==
    /\ Start(t)
    /\ SetTask(t, [IdleTask EXCEPT !.kind = "request", !.service = service,
                                   !.pc = "req"])
    /\ UNCHANGED <<wallet_balance, daily_allowance, bank_details, spending_history,
                   payments, credited, settled, accepted, aside>>

\* One iteration of `for attempt in range(self.max_retries)`: the request, the
\* reply and the branch on it. `calls` counts the requests sent, `sleeps` the
\* backoff sleeps, `auths` the logins this request started; `first` and `last`
\* keep the first and the latest outcome. The histories of sleeps and
\* outcomes are kept for a request made on its own.
make_api_request_attempt(t, outcome) ==
    LET task == tasks[t]
        bare == task.kind = "request"
        sent == [task EXCEPT !.calls = @ + 1,
                             !.last = IF bare THEN outcome ELSE @,
                             !.first = IF bare /\ @ = None THEN outcome ELSE @]
        again == [sent EXCEPT !.attempt = @ + 1,
                              !.sleeps = IF bare THEN @ + 1 ELSE @]
    IN  /\ task.pc = "req"
        /\ IF outcome = TimeoutRaised
           THEN /\ SetTask(t, Fail(sent, "TimeoutError", "timeout"))
                /\ UNCHANGED in_flight
           ELSE IF outcome = ClientErrorRaised
           THEN /\ IF task.attempt < max_retries - 1
                   THEN SetTask(t, again)
                   ELSE SetTask(t, Fail(sent, GatewayError(task.service), "Network error"))
                /\ UNCHANGED in_flight
           ELSE IF outcome = 200
           THEN /\ SetTask(t, request_returns(sent))
                /\ UNCHANGED in_flight
           ELSE IF reauth_status(task.service, outcome)
           THEN /\ SetTask(t, [sent EXCEPT !.pc = "auth_wait", !.ret = "req_auth",
                                           !.auths = @ + 1])
                /\ in_flight' = in_flight + 1
           ELSE IF task.service = "payment" /\ outcome \in {401, 403}
           THEN /\ SetTask(t, Raise(sent, "PaymentError", "Authentication failed"))
                /\ UNCHANGED in_flight
           ELSE IF retry_status(task.service, outcome, task.attempt)
           THEN /\ SetTask(t, again)
                /\ UNCHANGED in_flight
           ELSE /\ SetTask(t, Fail(sent, GatewayError(task.service), "API request failed"))
                /\ UNCHANGED in_flight
        /\ UNCHANGED <<wallet_balance, daily_allowance, bank_details, spending_history,
                       payments, ops, credited, settled, accepted, opening, debits,
                       transfers, bank_record, validated_accounts, resolved, platform,
                       access_token, token_expires_at, now, cached_at>>

\* A call of _ensure_authenticated on its own: _authenticate's login request
\* is sent when the condition holds, and nothing is sent otherwise.
ensure_authenticated(t) ==
    LET task == [IdleTask EXCEPT !.kind = "ensure", !.service = "transfer",
                                 !.seen = IF needs_login THEN "login" ELSE "held"]
    IN  /\ Start(t)
        /\ ops < MaxRuns
        /\ IF needs_login
           THEN /\ SetTask(t, [task EXCEPT !.pc = "auth_wait", !.ret = "done",
                                           !.auths = 1])
                /\ in_flight' = in_flight + 1
           ELSE /\ SetTask(t, [Done(task) EXCEPT !.msg = "authenticated"])
                /\ UNCHANGED in_flight
        /\ UNCHANGED <<wallet_balance, daily_allowance, bank_details, spending_history,
                       payments, credited, settled, accepted, opening, debits,
                       transfers, bank_record, validated_accounts, resolved, platform,
                       access_token, token_expires_at, now, cached_at>>

\* _authenticate from the reply of POST /auth/login on: on status 200 with
\* requestSuccessful (ok) the token and the refresh deadline utcnow() +
\* expires_in - 300 are stored and the caller goes on; anything else is raised
\* as TransferError. After a 401 the loop continues if attempt < max_retries - 1
\* and otherwise ends with "Max retries exceeded".
authenticate_reply(t, ok, expires_in) ==
    LET task == tasks[t]
    IN  /\ task.pc = "auth_wait"
        /\ in_flight' = in_flight - 1
        /\ IF ~ok
           THEN /\ SetTask(t, Fail(task, "TransferError", "Authentication failed"))
                /\ UNCHANGED <<access_token, token_expires_at>>
           ELSE /\ access_token' = Token
                /\ token_expires_at' = now + expires_in - RefreshMargin
                /\ IF task.ret = "req_auth"
                   THEN IF task.attempt < max_retries - 1
                        THEN SetTask(t, [task EXCEPT !.pc = "req", !.attempt = @ + 1])
                        ELSE SetTask(t, Fail(task, "TransferError", "Max retries exceeded"))
                   ELSE IF task.ret = "req"
                   THEN SetTask(t, [task EXCEPT !.pc = "req"])
                   ELSE SetTask(t, [Done(task) EXCEPT !.msg = "authenticated"])
        /\ UNCHANGED <<wallet_balance, daily_allowance, bank_details, spending_history,
                       payments, ops, credited, settled, accepted, opening, debits,
                       transfers, bank_record, validated_accounts, resolved, platform,
                       now, cached_at>>

\* A variant of the lookup that still uses an entry exactly 24 hours old.
cache_hit_inclusive(key) ==
    /\ key \in DOMAIN cached_at
    /\ now - cached_at[key] <= CacheTtl

\* The cache entry of the key is there and less than 24 hours old.
cache_hit(key) ==
    /\ key \in DOMAIN cached_at
    /\ now - cached_at[key] < CacheTtl

\* TransferService.validate_bank_account up to its first request: the cache
\* lookup, then _ensure_authenticated. `seen` keeps whether the cache answered.
validate_bank_account_lookup(t, account_number, bank_code) ==
    LET key == cache_key(account_number, bank_code)
        task == [IdleTask EXCEPT !.kind = "lookup", !.service = "transfer",
                                 !.account_number = account_number,
                                 !.bank_code = bank_code]
    IN  /\ Start(t)
        /\ ops < MaxRuns
        /\ IF cache_hit(key)
           THEN /\ SetTask(t, [Done(task) EXCEPT !.msg = "accountName", !.seen = "hit"])
                /\ UNCHANGED in_flight
           ELSE IF needs_login
           THEN /\ SetTask(t, [task EXCEPT !.pc = "auth_wait", !.ret = "req",
                                           !.auths = 1, !.seen = "miss"])
                /\ in_flight' = in_flight + 1
           ELSE /\ SetTask(t, [task EXCEPT !.pc = "req", !.seen = "miss"])
                /\ UNCHANGED in_flight
        /\ UNCHANGED <<wallet_balance, daily_allowance, bank_details, spending_history,
                       payments, credited, settled, accepted, opening, debits,
                       transfers, bank_record, validated_accounts, resolved, platform,
                       access_token, token_expires_at, now, cached_at>>

\* validate_bank_account after _make_api_request returned: without
\* requestSuccessful BankValidationError is raised and nothing is cached; with it
\* the responseBody is cached under the key with cached_at = utcnow(), the
\* security event is logged and the responseBody returned.
validate_bank_account_reply(t, request_successful) ==
    LET task == tasks[t]
        key == cache_key(task.account_number, task.bank_code)
    IN  /\ task.pc = "v_reply"
        /\ IF request_successful
           THEN /\ cached_at' = [k \in DOMAIN cached_at \cup {key} |->
                                    IF k = key THEN now ELSE cached_at[k]]
                /\ SetTask(t, [Done(task) EXCEPT !.msg = "accountName"])
           ELSE /\ SetTask(t, Raise(task, "BankValidationError",
                                    "Account validation failed"))
                /\ UNCHANGED cached_at
        /\ UNCHANGED <<wallet_balance, daily_allowance, bank_details, spending_history,
                       payments, ops, credited, settled, accepted, opening, debits,
                       transfers, bank_record, validated_accounts, resolved, platform,
                       access_token, token_expires_at, now, in_flight>>

\* Time passes: the clock shows a later instant.
tick(instant) ==
    /\ instant > now
    /\ now' = instant
    /\ UNCHANGED <<wallet_balance, daily_allowance, bank_details, spending_history,
                   payments, tasks, ops, credited, settled, accepted, opening, debits,
                   transfers, bank_record, validated_accounts, resolved, platform,
                   access_token, token_expires_at, in_flight, cached_at>>

\* Requests of both gateways on their own, two at a time.
NextRequest ==
    \E t \in TaskIds :
        \/ \E service \in Services : make_api_request(t, service)
        \/ \E outcome \in Outcomes : make_api_request_attempt(t, outcome)
        \/ \E ok \in BOOLEAN, e \in ExpiresIn : authenticate_reply(t, ok, e)
        \/ Return(t)

\* The gateways of a freshly started process.
InitGateways == InitBudget

SpecRequest == InitGateways /\ [][NextRequest]_vars

\* What the attempts of a validation meet at the provider.
ValidationOutcomes == {200, 401, 500}

\* The transfer gateway's token and cache under concurrent callers, while time
\* passes.
NextToken ==
    \/ \E t \in TaskIds :
        \/ ensure_authenticated(t)
        \/ \E ok \in BOOLEAN, e \in ExpiresIn : authenticate_reply(t, ok, e)
        \/ \E a \in CacheAccounts, b \in BankCodes : validate_bank_account_lookup(t, a, b)
        \/ \E outcome \in ValidationOutcomes : make_api_request_attempt(t, outcome)
        \/ \E ok \in BOOLEAN : validate_bank_account_reply(t, ok)
        \/ Return(t)
    \/ \E instant \in Instants : tick(instant)

SpecToken == InitGateways /\ [][NextToken]_vars

(***************************************************************************)
(* The list of banks: TransferService.get_banks with its cache, and        *)
(* BankService.get_supported_banks on top of it with a cache of its own.   *)
(***************************************************************************)
\* responseBody of GET /api/v1/banks with requestSuccessful: a list of banks or
\* an empty list; "refused": a reply without requestSuccessful.
BankReplies == {"banks", "empty", "refused"}

\* get_banks' cache test: self._banks_cache and self._banks_cache_expires and
\* utcnow() < self._banks_cache_expires. An empty list is falsy.
banks_cache_fresh ==
    /\ banks_cache = "banks"
    /\ banks_cache_expires # None
    /\ now < banks_cache_expires

\* What get_supported_banks makes of the list get_banks returned: a list with
\* banks is cached for an hour (_cache_banks) and returned, an empty list is
\* answered with None.
supported_banks(task, banks) ==
    IF task.kind = "supported"
    THEN [Done(task) EXCEPT !.msg = IF banks = "banks" THEN "banks" ELSE "None",
                            !.ret = banks]
    ELSE [Done(task) EXCEPT !.msg = banks, !.ret = banks]

\* The same for BankService._cached_banks.
cache_banks(task, banks) ==
    IF task.kind = "supported" /\ banks = "banks"
    THEN [present |-> TRUE, data |-> banks, expires_at |-> now + BanksTtl]
    ELSE cached_banks

\* get_banks (kind "banks") or get_supported_banks (kind "supported") up to the
\* first request: the cache test, then _ensure_authenticated.
get_banks_from(t, kind) ==
    LET task == [IdleTask EXCEPT !.kind = kind, !.service = "transfer"]
    IN  /\ Start(t)
        /\ ops < MaxRuns
        /\ IF banks_cache_fresh
           THEN /\ SetTask(t, [supported_banks(task, banks_cache) EXCEPT !.seen = "hit"])
                /\ cached_banks' = cache_banks(task, banks_cache)
                /\ UNCHANGED in_flight
           ELSE IF needs_login
           THEN /\ SetTask(t, [task EXCEPT !.pc = "auth_wait", !.ret = "req", !.auths = 1])
                /\ in_flight' = in_flight + 1
                /\ UNCHANGED cached_banks
           ELSE /\ SetTask(t, [task EXCEPT !.pc = "req"])
                /\ UNCHANGED <<in_flight, cached_banks>>
        /\ UNCHANGED <<wallet_balance, daily_allowance, bank_details, spending_history,
                       payments, credited, settled, accepted, opening, debits,
                       transfers, bank_record, validated_accounts, resolved,
                       access_token, token_expires_at, now, cached_at,
                       banks_cache, banks_cache_expires,
                       initialized, shutdown, is_healthy, inits, started, stopped>>

\* A call of TransferService.get_banks.
get_banks(t) == get_banks_from(t, "banks")

\* A call of BankService.get_supported_banks.
get_supported_banks(t) == get_banks_from(t, "supported")

\* get_banks after _make_api_request returned: without requestSuccessful
\* TransferError is raised; otherwise the list is cached for an hour and
\* returned.
get_banks_reply(t, reply) ==
    LET task == tasks[t]
    IN  /\ task.pc = "b_reply"
        /\ IF reply = "refused"
           THEN /\ SetTask(t, Fail(task, "TransferError", "Failed to get banks"))
                /\ UNCHANGED <<banks_cache, banks_cache_expires, cached_banks>>
           ELSE /\ banks_cache' = reply
                /\ banks_cache_expires' = now + BanksTtl
                /\ cached_banks' = cache_banks(task, reply)
                /\ SetTask(t, supported_banks(task, reply))
        /\ UNCHANGED <<wallet_balance, daily_allowance, bank_details, spending_history,
                       payments, ops, credited, settled, accepted, opening, debits,
                       transfers, bank_record, validated_accounts, resolved, gateway,
                       initialized, shutdown, is_healthy, inits, started, stopped>>

NextBanks ==
    \/ \E t \in TaskIds :
        \/ get_banks(t)
        \/ get_supported_banks(t)
        \/ \E ok \in BOOLEAN, e \in ExpiresIn : authenticate_reply(t, ok, e)
        \/ \E outcome \in ValidationOutcomes : make_api_request_attempt(t, outcome)
        \/ \E reply \in BankReplies : get_banks_reply(t, reply)
        \/ Return(t)
    \/ \E instant \in Instants : tick(instant)

SpecBanks == InitGateways /\ [][NextBanks]_vars

(***************************************************************************)
(* TransferService.get_transfer_status, polled while transfers are made.   *)
(***************************************************************************)
\* The summary of a disbursement: its status, or a reply without
\* requestSuccessful ("refused").
TransferStatuses == {"success", "failed", "pending", "refused"}

\* get_transfer_status up to its request: _ensure_authenticated.
get_transfer_status(t, reference) ==
    LET task == [IdleTask EXCEPT !.kind = "status", !.service = "transfer",
                                 !.ref = reference]
    IN  /\ Start(t)
        /\ ops < MaxRuns
        /\ IF needs_login
           THEN /\ SetTask(t, [task EXCEPT !.pc = "auth_wait", !.ret = "req", !.auths = 1])
                /\ in_flight' = in_flight + 1
           ELSE /\ SetTask(t, [task EXCEPT !.pc = "req"])
                /\ UNCHANGED in_flight
        /\ UNCHANGED <<wallet_balance, daily_allowance, bank_details, spending_history,
                       payments, credited, settled, accepted, opening, debits,
                       transfers, bank_record, validated_accounts, resolved, platform,
                       access_token, token_expires_at, now, cached_at>>

\* A variant that credits the amount of a failed transfer back to the wallet
\* when it sees the failure.
get_transfer_status_reply_refund(t, reply) ==
    LET task == tasks[t]
    IN  /\ task.pc = "s_reply"
        /\ IF reply = "refused"
           THEN SetTask(t, Fail(task, "TransferError", "Failed to get transfer status"))
           ELSE SetTask(t, [Done(task) EXCEPT !.msg = reply])
        /\ wallet_balance' = IF reply = "failed"
                             THEN [wallet_balance EXCEPT ![task.ref] = @ + 1000]
                             ELSE wallet_balance
        /\ UNCHANGED <<daily_allowance, bank_details, spending_history,
                       payments, ops, credited, settled, accepted, aside>>

\* get_transfer_status after _make_api_request returned: without
\* requestSuccessful TransferError is raised, otherwise the provider's status is
\* returned in lower case.
get_transfer_status_reply(t, reply) ==
    LET task == tasks[t]
    IN  /\ task.pc = "s_reply"
        /\ IF reply = "refused"
           THEN SetTask(t, Fail(task, "TransferError", "Failed to get transfer status"))
           ELSE SetTask(t, [Done(task) EXCEPT !.msg = reply])
        /\ UNCHANGED <<wallet_balance, daily_allowance, bank_details, spending_history,
                       payments, ops, credited, settled, accepted, aside>>

NextStatus ==
    \E t \in TaskIds :
        \/ \E u \in Users, a \in Allowances, reply \in GatewayReplies :
               initiate_transfer(t, u, a, reply)
        \/ initiate_transfer_log(t)
        \/ initiate_transfer_audit(t)
        \/ \E r \in Refs : get_transfer_status(t, r)
        \/ \E ok \in BOOLEAN, e \in ExpiresIn : authenticate_reply(t, ok, e)
        \/ \E outcome \in ValidationOutcomes : make_api_request_attempt(t, outcome)
        \/ \E reply \in TransferStatuses : get_transfer_status_reply(t, reply)
        \/ Return(t)

SpecStatus == InitLedger /\ [][NextStatus]_vars

(***************************************************************************)
(* BaseService.start / stop and the ServiceRegistry                        *)
(* (services/base_service.py). A call of initialize() or shutdown() is an  *)
(* await: the task waits in "s_init" or "s_shutdown" until it returns or   *)
(* raises. `inits` counts the calls of initialize() per service, `started` *)
(* and `stopped` list the calls of initialize() and shutdown() in order.   *)
(***************************************************************************)
\* list(reversed(order)).
Reverse(order) == [i \in 1..Len(order) |-> order[Len(order) + 1 - i]]

\* stop_all_services' order when it ran through the start-up order as it is.
shutdown_order_forward == StartupOrder

\* stop_all_services: shutdown_order = list(reversed(self._startup_order)).
shutdown_order == Reverse(StartupOrder)

\* What neither start nor stop touches.
aside_services == <<opening, debits, transfers, bank_record, validated_accounts,
                    resolved, gateway, banks_cache, banks_cache_expires, cached_banks>>

\* The loops of start_all_services and stop_all_services between two awaits:
\* start() and stop() return at once for a service whose flag is set, so the
\* loop runs on to the first service of `order` whose flag is not set.
RECURSIVE remaining(_, _)
remaining(order, flags) ==
    IF order = <<>> THEN <<>>
    ELSE IF flags[Head(order)] THEN remaining(Tail(order), flags)
    ELSE order

\* A start() that calls initialize() whether or not the service is initialized.
start_unguarded(t, name) ==
    /\ Start(t)
    /\ SetTask(t, [IdleTask EXCEPT !.kind = "start", !.pc = "s_init", !.name = name,
                                   !.seen = IF initialized[name] THEN "initialized"
                                            ELSE IF is_healthy[name] THEN "first"
                                            ELSE "retry"])
    /\ inits' = [inits EXCEPT ![name] = @ + 1]
    /\ started' = Append(started, name)
    /\ UNCHANGED <<initialized, shutdown, is_healthy, stopped>>
    /\ UNCHANGED <<wallet_balance, daily_allowance, bank_details, spending_history,
                   payments, credited, settled, accepted, aside_services>>

\* BaseService.start up to `await self.initialize()`: nothing happens when
\* _initialized is set. `seen` keeps what the call found: an initialized service,
\* a fresh one, or one a failed initialize() left marked unhealthy.
start(t, name) ==
    LET task == [IdleTask EXCEPT !.kind = "start", !.name = name,
                                 !.seen = IF initialized[name] THEN "initialized"
                                          ELSE IF is_healthy[name] THEN "first"
                                          ELSE "retry"]
    IN  /\ Start(t)
        /\ IF initialized[name]
           THEN /\ SetTask(t, Done(task))
                /\ UNCHANGED <<inits, started>>
           ELSE /\ SetTask(t, [task EXCEPT !.pc = "s_init"])
                /\ inits' = [inits EXCEPT ![name] = @ + 1]
                /\ started' = Append(started, name)
        /\ UNCHANGED <<initialized, shutdown, is_healthy, stopped>>
        /\ UNCHANGED <<wallet_balance, daily_allowance, bank_details, spending_history,
                       payments, credited, settled, accepted, aside_services>>

\* start_all_services up to the first initialize() it awaits; when every service
\* is initialized already it goes straight to _start_health_monitoring and
\* returns.
start_all_services(t) ==
    LET task == [IdleTask EXCEPT !.kind = "start_all"]
        order == remaining(StartupOrder, initialized)
    IN  /\ Start(t)
        /\ IF order = <<>>
           THEN /\ SetTask(t, Done(task))
                /\ UNCHANGED <<inits, started>>
           ELSE /\ SetTask(t, [task EXCEPT !.pc = "s_init", !.name = Head(order),
                                           !.order = Tail(order)])
                /\ inits' = [inits EXCEPT ![Head(order)] = @ + 1]
                /\ started' = Append(started, Head(order))
        /\ UNCHANGED <<initialized, shutdown, is_healthy, stopped>>
        /\ UNCHANGED <<wallet_balance, daily_allowance, bank_details, spending_history,
                       payments, credited, settled, accepted, aside_services>>

\* initialize() returns or raises. On return start() sets _initialized and marks
\* the service healthy; start_all_services then goes on to the next service of
\* its order that is not initialized yet. When initialize() raises, start()
\* marks the service unhealthy and raises again, which ends start_all_services
\* too.
initialize_returns(t, ok) ==
    LET task == tasks[t]
        flags == [initialized EXCEPT ![task.name] = TRUE]
        order == remaining(task.order, flags)
    IN  /\ task.pc = "s_init"
        /\ IF ~ok
           THEN /\ is_healthy' = [is_healthy EXCEPT ![task.name] = FALSE]
                /\ SetTask(t, Raise(task, "Exception", "initialize"))
                /\ UNCHANGED <<initialized, inits, started>>
           ELSE /\ initialized' = flags
                /\ is_healthy' = [is_healthy EXCEPT ![task.name] = TRUE]
                /\ IF order = <<>>
                   THEN /\ SetTask(t, Done([task EXCEPT !.order = <<>>]))
                        /\ UNCHANGED <<inits, started>>
                   ELSE /\ SetTask(t, [task EXCEPT !.name = Head(order),
                                                   !.order = Tail(order)])
                        /\ inits' = [inits EXCEPT ![Head(order)] = @ + 1]
                        /\ started' = Append(started, Head(order))
        /\ UNCHANGED <<shutdown, stopped, ops>>
        /\ UNCHANGED <<wallet_balance, daily_allowance, bank_details, spending_history,
                       payments, credited, settled, accepted, aside_services>>

\* BaseService.stop up to `await self.shutdown()`: nothing happens when _shutdown
\* is set.
stop(t, name) ==
    LET task == [IdleTask EXCEPT !.kind = "stop", !.name = name]
    IN  /\ Start(t)
        /\ IF shutdown[name]
           THEN /\ SetTask(t, Done(task))
                /\ UNCHANGED stopped
           ELSE /\ SetTask(t, [task EXCEPT !.pc = "s_shutdown"])
                /\ stopped' = Append(stopped, name)
        /\ UNCHANGED <<initialized, shutdown, is_healthy, inits, started>>
        /\ UNCHANGED <<wallet_balance, daily_allowance, bank_details, spending_history,
                       payments, credited, settled, accepted, aside_services>>

\* stop_all_services up to the first shutdown() it awaits.
stop_all_services(t) ==
    LET task == [IdleTask EXCEPT !.kind = "stop_all"]
        order == remaining(shutdown_order, shutdown)
    IN  /\ Start(t)
        /\ IF order = <<>>
           THEN /\ SetTask(t, Done(task))
                /\ UNCHANGED stopped
           ELSE /\ SetTask(t, [task EXCEPT !.pc = "s_shutdown", !.name = Head(order),
                                           !.order = Tail(order)])
                /\ stopped' = Append(stopped, Head(order))
        /\ UNCHANGED <<initialized, shutdown, is_healthy, inits, started>>
        /\ UNCHANGED <<wallet_balance, daily_allowance, bank_details, spending_history,
                       payments, credited, settled, accepted, aside_services>>

\* shutdown() returns or raises. On return stop() sets _shutdown and
\* stop_all_services goes on to the next service; when shutdown() raises, stop()
\* raises again and stop_all_services ends.
shutdown_returns(t, ok) ==
    LET task == tasks[t]
        flags == [shutdown EXCEPT ![task.name] = TRUE]
        order == remaining(task.order, flags)
    IN  /\ task.pc = "s_shutdown"
        /\ IF ~ok
           THEN /\ SetTask(t, Raise(task, "Exception", "shutdown"))
                /\ UNCHANGED <<shutdown, stopped>>
           ELSE /\ shutdown' = flags
                /\ IF order = <<>>
                   THEN /\ SetTask(t, Done([task EXCEPT !.order = <<>>]))
                        /\ UNCHANGED stopped
                   ELSE /\ SetTask(t, [task EXCEPT !.name = Head(order),
                                                   !.order = Tail(order)])
                        /\ stopped' = Append(stopped, Head(order))
        /\ UNCHANGED <<initialized, is_healthy, inits, started, ops>>
        /\ UNCHANGED <<wallet_balance, daily_allowance, bank_details, spending_history,
                       payments, credited, settled, accepted, aside_services>>

NextServices ==
    \E t \in TaskIds :
        \/ \E name \in ServiceNames : start(t, name)
        \/ \E name \in ServiceNames : stop(t, name)
        \/ start_all_services(t)
        \/ stop_all_services(t)
        \/ \E ok \in BOOLEAN : initialize_returns(t, ok)
        \/ \E ok \in BOOLEAN : shutdown_returns(t, ok)
        \/ Return(t)

SpecServices == InitGateways /\ [][NextServices]_vars

(***************************************************************************)
(* Claims about the payment reconciler.                                    *)
(***************************************************************************)

\* Rows of category topup that carry reference r, over all users.
TopupEntries(r) ==
    Cardinality(UNION {{<<u, i>> : i \in {j \in DOMAIN spending_history[u] :
                                            /\ spending_history[u][j].category = "topup"
                                            /\ spending_history[u][j].ref = r}}
                       : u \in Users})

\* C1: once a settlement of a reference has completed, whatever verify calls and
\* webhook deliveries follow, the wallet has been credited exactly once for the
\* reference: one balance increase and one top-up row in total.
C1_CreditedExactlyOnce ==
    \A r \in Refs :
        (Quiescent /\ settled[r] /\ payments[r].status # "absent")
        => (credited[r] = 1 /\ TopupEntries(r) = 1)

\* C2: a verify and a webhook delivery that both start on the same pending
\* reference and run concurrently credit the wallet once between them.
C2_RaceCreditsOnce ==
    \A t1, t2 \in TaskIds :
        ( /\ tasks[t1].kind = "verify" /\ tasks[t1].seen = "pending"
          /\ tasks[t2].kind = "webhook" /\ tasks[t2].seen = "pending"
          /\ tasks[t1].ref = tasks[t2].ref )
        => credited[tasks[t1].ref] <= 1

\* C6: a webhook whose signature is not the HMAC of its payload under the shared
\* secret ends in the rejection, having written nothing to the store.
C6_InvalidSignatureRejected ==
    \A t \in TaskIds :
        (tasks[t].kind = "webhook" /\ tasks[t].sig # "valid")
        => /\ tasks[t].pc = "done"
           /\ tasks[t].raised = "PaymentError"
           /\ tasks[t].writes = 0

\* C6 happens: a delivery signed for another amount was rejected while a payment
\* was pending.
C6_Witness ==
    \E t \in TaskIds, r \in Refs :
        /\ tasks[t].kind = "webhook" /\ tasks[t].sig = "tampered"
        /\ tasks[t].pc = "done" /\ tasks[t].raised = "PaymentError"
        /\ payments[r].status = "pending"

\* C8: a stored payment status of successful or failed never changes again.
C8_TerminalStatusImmutable ==
    [][\A r \in Refs :
          payments[r].status \in {"successful", "failed"}
          => payments'[r].status = payments[r].status]_vars


\* C11: initialize_payment with amount <= 0 ends with the invalid amount error,
\* has sent no request to the gateway and has written no payment row.
C11_InvalidAmountRejected ==
    /\ \A t \in TaskIds :
           (tasks[t].kind = "initialize" /\ tasks[t].amount <= 0)
           => /\ tasks[t].pc = "done"
              /\ tasks[t].raised = "PaymentError"
              /\ tasks[t].msg = "Invalid payment amount"
              /\ tasks[t].calls = 0
              /\ tasks[t].writes = 0
    /\ \A r \in Refs : payments[r].status # "absent" => payments[r].amount > 0

\* C11 happens: a top-up of -50 was refused while no payment row exists.
C11_Witness ==
    \E t \in TaskIds :
        /\ tasks[t].kind = "initialize" /\ tasks[t].amount = -50
        /\ tasks[t].pc = "done" /\ tasks[t].raised = "PaymentError"
        /\ \A r \in Refs : payments[r].status = "absent"

(***************************************************************************)
(* Claims about the ledger, the allowance deduction and the disbursement.  *)
(***************************************************************************)
RECURSIVE SumAmounts(_)
SumAmounts(history) ==
    IF history = <<>> THEN 0 ELSE Head(history).amount + SumAmounts(Tail(history))

\* C3: once every concurrent credit and debit on a user has finished, the balance
\* is the opening balance plus the sum of the deltas update_user_balance
\* accepted (wrote): no accepted update is lost.
C3_NoLostUpdate ==
    Quiescent => \A u \in Users : wallet_balance[u] = opening[u] + accepted[u]

C5_InsufficientBalanceOutcome ==
    \A t \in TaskIds :
        LET task == tasks[t]
        IN  /\ (/\ task.kind \in {"balance", "deduct"}
                /\ task.operation = "subtract"
                /\ task.pc = "done"
                /\ task.msg = "Insufficient balance")
               => (task.raised = "InsufficientBalanceError" /\ task.writes = 0)
            /\ (task.pc = "done" /\ task.msg = "storage")
               => task.raised # "InsufficientBalanceError"

\* C7: within one calendar day (the whole behaviour) no user is debited the daily
\* allowance more than once, however often the deduction runs.
C7_OneDebitPerDay == \A u \in Users : debits[u] <= 1

\* C9: whenever no operation is in progress, each user's balance is the opening
\* balance plus the sum of the signed amounts of the user's log entries.
C9_BalanceIsSumOfLog ==
    Quiescent =>
        \A u \in Users : wallet_balance[u] = opening[u] + SumAmounts(spending_history[u])

\* C10: a pass of process_daily_allowance for a user whose balance covers a
\* positive daily allowance and who has bank details ends disbursed, with the
\* balance reduced by the allowance and one transfer initiated.
C10_PassDisburses ==
    \A t \in TaskIds :
        LET task == tasks[t]
        IN  (/\ task.kind = "allowance"
             /\ task.pc = "done"
             /\ task.amount > 0
             /\ task.cur >= task.amount
             /\ task.seen = "bank")
            => /\ task.msg = "disbursed"
               /\ debits[task.user_id] = 1
               /\ transfers[task.user_id] = 1


\* C20: a transfer request that timed out at the gateway is not reported or
\* recorded as failed: the handler does not end with the failed statistic and
\* the TransferError of a refused transfer.
C20_TimeoutOutcomeUnknown ==
    \A t \in TaskIds :
        (/\ tasks[t].kind = "transfer"
         /\ tasks[t].pc = "done"
         /\ tasks[t].seen = "timeout")
        => /\ tasks[t].status # "failed"
           /\ tasks[t].raised # "TransferError"

\* C21: whenever initiate_transfer has sent the transfer request to the provider
\* and has ended, the user's log holds an entry of category transfer with amount
\* = -amount, whatever the provider answered.
C21_SentTransferLogged ==
    \A t \in TaskIds :
        (/\ tasks[t].kind = "transfer"
         /\ tasks[t].pc = "done"
         /\ tasks[t].seen \in GatewayReplies)
        => \E i \in DOMAIN spending_history[tasks[t].user_id] :
               /\ spending_history[tasks[t].user_id][i].category = "transfer"
               /\ spending_history[tasks[t].user_id][i].amount = 0 - tasks[t].amount

\* The state a settlement of the pending payment r leaves when nothing else has
\* touched the payment or its user: status successful with completed_at set, the
\* balance raised by the recorded amount, one top-up entry for r.
SettledOnce(r) ==
    LET u == payments[r].user_id
    IN  /\ payments[r].status = "successful"
        /\ payments[r].completed_at
        /\ wallet_balance[u] = opening[u] + payments[r].amount
        /\ spending_history[u] = <<Entry(payments[r].amount, "topup", r)>>

\* A settlement of a successful charge by task t has returned normally: a
\* verify_payment whose provider reply had status success, or a verified
\* charge.success webhook carrying the recorded user and amount.
SettlementReturned(t) ==
    /\ tasks[t].pc = "done"
    /\ tasks[t].raised = "none"
    /\ tasks[t].seen = "pending"
    /\ tasks[t].ref \in Refs
    /\ tasks[t].user_id = payments[tasks[t].ref].user_id
    /\ tasks[t].amount = payments[tasks[t].ref].amount
    /\ \/ tasks[t].kind = "verify" /\ tasks[t].status = "success"
       \/ tasks[t].kind = "webhook" /\ tasks[t].status = "charge.success"

\* C22: from the same pending payment, with no other operation but the one that
\* created it, settlement by verify_payment and settlement by a verified
\* charge.success webhook end in the same state: SettledOnce.
C22_WebhookSettlesAsVerify ==
    \A t \in TaskIds :
        (ops = 2 /\ SettlementReturned(t)) => SettledOnce(tasks[t].ref)

\* C23: when the only settlement attempt on a pending payment has ended, with or
\* without an error, the payment is in a successful status if and only if the
\* wallet was credited for its reference.
C23_SettlementAllOrNothing ==
    \A t \in TaskIds :
        (/\ ops = 2
         /\ tasks[t].kind \in {"verify", "webhook"}
         /\ tasks[t].pc = "done"
         /\ tasks[t].seen = "pending")
        => (payments[tasks[t].ref].status \in {"success", "successful"}
                <=> credited[tasks[t].ref] > 0)

\* C24: every wallet credit made by a settlement (verify_payment or a webhook)
\* is for a reference with a recorded payment, and credits the user and the
\* amount of that record.
C24_CreditMatchesRecord ==
    [][\A t \in TaskIds :
          (/\ tasks[t].kind \in {"verify", "webhook"}
           /\ tasks[t].pc = "ub_write"
           /\ tasks'[t] # tasks[t]
           /\ wallet_balance' # wallet_balance)
          => /\ tasks[t].ref \in Refs
             /\ payments[tasks[t].ref].status # "absent"
             /\ payments[tasks[t].ref].user_id = tasks[t].user_id
             /\ payments[tasks[t].ref].amount = tasks[t].amount]_vars

\* The outcome of the latest attempt lets the loop go round again under the
\* retry rule named: on a 5xx status or a network-level failure.
RetriedOn5xxOrNetwork(task) == task.last >= 500 \/ task.last = ClientErrorRaised

\* A request on its own has ended with a response or with its gateway's error.
EndedWithResult(task) ==
    task.pc = "done" =>
        \/ task.raised = "none" /\ task.msg = "response"
        \/ task.raised = GatewayError(task.service)

NonRetryable(service) == IF service = "payment" THEN {400, 401, 403} ELSE {400, 403}

C27_SingleReauthentication ==
    \A t \in TaskIds :
        (tasks[t].kind = "request" /\ tasks[t].service = "transfer")
        => tasks[t].auths <= 1

\* C28: at most one login request of the transfer gateway is in flight at any
\* time.
C28_SingleRefreshInFlight == in_flight <= 1

\* No token is held, or the clock has reached the stored refresh deadline.
NoTokenOrDeadlineReached ==
    \/ access_token = None
    \/ token_expires_at # None /\ now >= token_expires_at

\* C29: _ensure_authenticated sends a login exactly when no token is held or the
\* refresh deadline is reached, and when it returns successfully a token is
\* held whose refresh deadline lies in the future.
C29_LazyRefresh ==
    [][\A t \in TaskIds :
          /\ (tasks[t].kind = "idle" /\ tasks'[t].kind = "ensure")
             => (in_flight' = in_flight + 1 <=> NoTokenOrDeadlineReached)
          /\ (/\ tasks'[t].kind = "ensure"
              /\ tasks[t].pc # "done"
              /\ tasks'[t].pc = "done"
              /\ tasks'[t].raised = "none")
             => /\ access_token' # None
                /\ token_expires_at' > now']_vars

C31_OutageSurfaced ==
    \A t \in TaskIds :
        (/\ tasks[t].kind \in {"banks", "supported"}
         /\ tasks[t].pc = "done"
         /\ tasks[t].seen = "outage"
         /\ tasks[t].msg # "banks")
        => tasks[t].raised # "none"

\* C32: when initialize_payment ends with an error, no pending payment row is
\* left behind for the reference it generated.
C32_FailedChargeLeavesNoRow ==
    \A t \in TaskIds :
        (/\ tasks[t].kind = "initialize"
         /\ tasks[t].pc = "done"
         /\ tasks[t].raised # "none"
         /\ tasks[t].ref # Missing)
        => payments[tasks[t].ref].status # "pending"

C34_StatusPollReadOnly ==
    [][\A t \in TaskIds :
          (tasks'[t] # tasks[t] /\ "status" \in {tasks[t].kind, tasks'[t].kind})
          => /\ wallet_balance' = wallet_balance
             /\ daily_allowance' = daily_allowance
             /\ spending_history' = spending_history]_vars

\* A status poll has reported a failed transfer for a user whose log holds a
\* transfer.
C34_Witness ==
    \E t \in TaskIds :
        /\ tasks[t].kind = "status"
        /\ tasks[t].pc = "done"
        /\ tasks[t].msg = "failed"
        /\ \E u \in Users : Len(spending_history[u]) > 0 /\ wallet_balance[u] > 0

\* C35: no step of a webhook delivery whose event is not charge.success changes
\* a balance or the log; a delivery that credits is a charge.success.
C35_OnlySuccessCredits ==
    [][\A t \in TaskIds :
          LET delivery == IF tasks[t].kind = "webhook" THEN tasks[t] ELSE tasks'[t]
          IN  (/\ tasks'[t] # tasks[t]
               /\ delivery.kind = "webhook"
               /\ delivery.status # "charge.success")
              => /\ wallet_balance' = wallet_balance
                 /\ spending_history' = spending_history]_vars

\* A correctly signed charge.failed delivery has been processed and stored its
\* status, for a user whose wallet holds money.
C35_Witness ==
    \E t \in TaskIds :
        /\ tasks[t].kind = "webhook"
        /\ tasks[t].sig = "valid"
        /\ tasks[t].status = "charge.failed"
        /\ tasks[t].pc = "done"
        /\ tasks[t].writes = 1
        /\ tasks[t].raised = "none"
        /\ tasks[t].user_id \in Users
        /\ wallet_balance[tasks[t].user_id] > 0

\* C36: a start on an initialized service does nothing (initialize() is not
\* called, no flag changes, the call returns); when initialize() raises, the
\* service is marked unhealthy and its _initialized flag is not set; a start on
\* a service that is not initialized calls initialize(), also after a failure.
C36_StartIdempotentRetryable ==
    [][\A t \in TaskIds :
          /\ (tasks[t].pc = "idle" /\ tasks'[t].kind = "start")
             => IF initialized[tasks'[t].name]
                THEN /\ inits' = inits
                     /\ initialized' = initialized
                     /\ is_healthy' = is_healthy
                     /\ tasks'[t].pc = "done"
                     /\ tasks'[t].raised = "none"
                ELSE /\ inits' = [inits EXCEPT ![tasks'[t].name] = @ + 1]
                     /\ tasks'[t].pc = "s_init"
          /\ (tasks[t].pc = "s_init" /\ tasks'[t].raised # "none")
             => /\ ~is_healthy'[tasks[t].name]
                /\ initialized' = initialized
                /\ inits' = inits]_vars

\* After a failed initialize() a later start has run it again with success, and
\* a further start on the service has returned without doing anything.
C36_Witness ==
    \E t \in TaskIds, other \in TaskIds :
        /\ tasks[t].kind = "start" /\ tasks[t].pc = "done"
        /\ tasks[t].seen = "retry" /\ tasks[t].raised = "none"
        /\ tasks[other].kind = "start" /\ tasks[other].pc = "done"
        /\ tasks[other].seen = "initialized"
        /\ tasks[other].name = tasks[t].name
        /\ initialized[tasks[t].name]
        /\ is_healthy[tasks[t].name]
        /\ inits[tasks[t].name] = 2

\* The place of a service in the configured start-up order.
Place(name) == CHOOSE i \in DOMAIN StartupOrder : StartupOrder[i] = name

\* C37: when start_all_services calls initialize() of a service, every service
\* before it in the start-up order is initialized (so none is started after one
\* that failed); when stop_all_services calls shutdown() of a service, every
\* service after it in the start-up order is shut down.
C37_OrderedStartReverseStop ==
    [][\A t \in TaskIds :
          /\ (/\ tasks'[t] # tasks[t]
              /\ tasks'[t].kind = "start_all"
              /\ Len(started') > Len(started))
             => \A name \in ServiceNames :
                    Place(name) < Place(started'[Len(started')])
                    => initialized'[name]
          /\ (/\ tasks'[t] # tasks[t]
              /\ tasks'[t].kind = "stop_all"
              /\ Len(stopped') > Len(stopped))
             => \A name \in ServiceNames :
                    Place(name) > Place(stopped'[Len(stopped')])
                    => shutdown'[name]]_vars

\* A registry run: every service was started in the start-up order by
\* start_all_services and stopped in the reverse order by stop_all_services.
C37_Witness ==
    /\ started = StartupOrder
    /\ stopped = Reverse(StartupOrder)
    /\ \A name \in ServiceNames : initialized[name] /\ shutdown[name]
    /\ \E t \in TaskIds : tasks[t].kind = "stop_all" /\ tasks[t].pc = "done"
                          /\ tasks[t].raised = "none"

\* C12: a budget change that succeeded returned daily_allowance = budget / 30
\* rounded to two decimals, and that is the value it persisted.
C12_AllowanceRounded ==
    \A t \in TaskIds :
        LET task == tasks[t]
        IN  (/\ task.kind \in {"budget", "legacy_budget"}
             /\ task.pc = "done"
             /\ task.raised = "none")
            => /\ task.cur % Kobo = 0
               /\ task.cur = task.stored


\* C13: a validation of an account number that is not exactly ten digits sends
\* no request to the gateway, on any validation path.
C13_MalformedNeverSent ==
    \A t \in TaskIds :
        (/\ tasks[t].kind \in {"validate", "bank_validate", "bank_setup"}
         /\ ~Nuban(tasks[t].account_number))
        => tasks[t].calls = 0

\* C14: every stored bank account record is of an account the provider has
\* resolved, and is marked verified.
C14_StoredOnlyValidated ==
    \A u \in Users :
        bank_record[u].present
        => /\ <<bank_record[u].account_number, bank_record[u].bank_code>> \in resolved
           /\ bank_record[u].is_verified

\* C15: a validation of a ten-digit account number that the provider resolved
\* returns the account name, not a failure.
C15_ResolvedNameReturned ==
    \A t \in TaskIds :
        (/\ tasks[t].kind \in {"validate", "bank_validate", "bank_setup"}
         /\ tasks[t].pc = "done"
         /\ Nuban(tasks[t].account_number)
         /\ <<tasks[t].account_number, tasks[t].bank_code>> \in resolved)
        => /\ tasks[t].raised = "none"
           /\ tasks[t].msg = "accountName"


PendingReview(u) ==
    \E i \in DOMAIN spending_history[u] :
        spending_history[u][i].description = "TransferPendingManualReview"

PassesFilter(u) ==
    daily_allowance[u] > 0 /\ bank_details[u] /\ wallet_balance[u] >= daily_allowance[u]

=============================================================================
